---- MODULE Spec2Model ----
(***************************************************************************)
(* A model of the Frontegg AgentLink Terraform provider's API client       *)
(* (internal/client/client.go) and of the provider callbacks that use it.  *)
(*                                                                         *)
(* Spec     : concurrent callers of GetAccessToken / DoRequest on one      *)
(*            Client, with the sync.RWMutex and every lock-protected       *)
(*            assignment as a step of its own.                             *)
(* SpecOps  : one goroutine calling the client's operations one after the  *)
(*            other; each step is one DoRequest (token acquisition and     *)
(*            HTTP exchange) and what the operation does with its answer.  *)
(*                                                                         *)
(* SpecCfg  : FronteggProvider.Configure, called once on a configuration   *)
(*            and an environment drawn from small sets.                    *)
(*                                                                         *)
(* SpecImport : the refresh-plan-apply cycles of one agentlink_tools_import *)
(*            resource: its Create, Read and Update, with edits of the     *)
(*            schema file and of the configuration between the cycles.     *)
(*                                                                         *)
(* SpecParse : SourceResource.ImportState on import IDs drawn from short    *)
(*            strings over a small alphabet.                               *)
(*                                                                         *)
(* SpecPolicy : the Create and Update handlers of the three policy         *)
(*            resources, one at a time, each through its client function   *)
(*            (the write request, then the read-back GET).                 *)
(*                                                                         *)
(* Assumptions of the model: json.Marshal of a request body and            *)
(* http.NewRequestWithContext never fail (the base URL is well formed), so *)
(* reaching httpClient.Do is "sending the request"; one HTTP exchange      *)
(* (request and response) is one step.                                     *)
(***************************************************************************)
EXTENDS Integers, Sequences, FiniteSets, TLC

\* ------------------------------------------------------------------ bounds
MaxTime == 1
MaxTokens == 2
MaxCalls == 3
MaxOps == 2
MaxApps == 2
MaxTools == 2
MaxCycles == 2
MaxIdLen == 4
MaxHandlers == 3

\* The goroutines that share one *Client.
Callers == {1, 2}

\* ------------------------------------------------------- program constants
\* client.go:158, "Set expiry with a buffer of 60 seconds".
ExpiryBuffer == 60
\* The zero value of Client.accessToken (the empty string).
EmptyToken == 0
\* The zero value of Client.tokenExpiry (time.Time{}, long before any clock value).
ZeroTime == 0 - 1000
\* No goroutine (the mutex has no writer).
Nobody == 0
\* A nil *Application, *McpConfiguration or *Policy; the empty ID string.
Nil == 0

StatusOK == 200
StatusCreated == 201
StatusNoContent == 204
StatusUnauthorized == 401
StatusNotFound == 404

\* expiresIn values the auth endpoint may answer with: a token that is expired as it
\* is stored, and one that lives for one tick of the clock.
ExpiresInValues == {60, 61}

\* What httpClient.Do plus decoding can come to for POST /auth/vendor.
AuthFailures == {"auth_transport", "auth_status", "auth_decode"}

\* Statuses an API endpoint may answer DoRequest with.
ApiStatuses == {StatusOK, StatusUnauthorized}

\* SpecOps: application names (two that differ in case only), the ids operations are
\* called with, and what an endpoint may answer: no response at all (a transport
\* error), or a status with a body that decodes or does not.
Names == {"app", "App"}
ObjectIds == {1, 2}
OpStatuses == {StatusOK, StatusCreated, StatusNoContent, StatusUnauthorized, StatusNotFound}
ApiResponses ==
    {[kind |-> "error", status |-> 0, decodable |-> FALSE]}
        \cup [kind : {"resp"}, status : OpStatuses, decodable : BOOLEAN]
\* The answers to a request whose response body the caller does not decode.
BodilessResponses == {r \in ApiResponses : ~r.decodable}
TokenOutcomes == {"hit", "ok"} \cup AuthFailures
Getters == {"GetApplicationByID", "GetMcpConfiguration", "GetConditionalPolicy",
            "GetRbacPolicy", "GetMaskingPolicy"}

VARIABLES
    now,          \* the wall clock, time.Now()
    accessToken,  \* Client.accessToken
    tokenExpiry,  \* Client.tokenExpiry
    muWriter,     \* Client.mu: the goroutine holding the write lock, or Nobody
    muPending,    \* Client.mu: goroutines blocked in Lock()
    muReaders,    \* Client.mu: goroutines holding a read lock
    nextToken,    \* the auth server: the next token it issues
    pc,           \* per caller: where it is in its call
    op,           \* per caller: the entry point it called
    token,        \* per caller: GetAccessToken's local `token`
    expiry,       \* per caller: GetAccessToken's local `expiry`
    authResp,     \* per caller: Authenticate's decoded AuthResponse
    ret,          \* per caller: the token GetAccessToken returned
    err,          \* per caller: the error of the call, "" for nil
    authSent,     \* per caller: POST /auth/vendor requests sent in this call
    apiSent,      \* per caller: API requests sent in this call
    bearer,       \* per caller: the token in the Authorization header sent
    status,       \* per caller: the status of the API response, 0 for none
    calls,        \* calls started, by all callers together
    lastLock,     \* history: the caller that took the write lock last
    expiryOf,     \* history: per token, the expiry stored with it
    reads,        \* history: per caller, read-locked sections entered in this call
    sentOnValid,  \* history: per caller, whether its POST /auth/vendor left while
                  \*          the cache held an unexpired token
    apps,         \* the server: its applications, in the order it lists them
    ApplicationID,    \* Client.ApplicationID
    ApplicationName,  \* Client.ApplicationName
    opName,       \* the client operation running, "none" between operations
    opArg,        \* its argument: the id or the name it was called with
    opc,          \* where the operation is
    log,          \* the HTTP requests the operation has sent, with their answers
    result,       \* what the operation returned: [obj, err]
    tools,        \* DeleteToolsBySource: result.Items
    idx,          \* DeleteToolsBySource: the position of the range loop
    deleteCalls,  \* DeleteToolsBySource: calls of DeleteTool made
    diag,         \* ToolsImportResource.Delete: resp.Diagnostics, [warnings, errors]
    inState,      \* whether the agentlink_tools_import resource is in the state
    opsStarted,   \* operations started
    dupCreate,    \* history: a create request left for a name the server already lists
    createsSent,  \* history: per name, create requests sent
    returnedIds,  \* history: per name, the ids FindOrCreateApplication returned
    config,       \* Configure: the provider block, each attribute null, unknown or known
    env,          \* Configure: FRONTEGG_REGION, _BASE_URL, _CLIENT_ID, _SECRET
    configured,   \* Configure has returned
    Diagnostics,  \* Configure: the summaries of the errors of resp.Diagnostics
    client,       \* Configure: the client NewClient made, if it came to that
    ResourceData, \* Configure: resp.ResourceData
    DataSourceData, \* Configure: resp.DataSourceData
    regionLookup, \* history: Configure looked the region up in regionURLs
    authRequests, \* history: POST /auth/vendor requests Configure's client sent
    authOutcome,  \* history: how the Authenticate of Configure went, "none" if not called
    file,         \* tools import: per path, the content of the schema file ("none": no file)
    tiConfig,     \* tools import: the resource block, [schema_file, schema_type]
    tiState,      \* tools import: the resource in the Terraform state
    tiStep,       \* tools import: where the cycle is, "edit" or "refreshed"
    tiPc,         \* tools import: where the running handler is, "idle" or "upsert"
    tiHandler,    \* tools import: the handler that runs or ran last
    tiPending,    \* tools import: the handler's locals between its two requests
    tiDiag,       \* tools import: the summaries of the errors of the last handler
    importCalls,  \* history: the contents ImportAndUpsertSchema was called with
    lastImport,   \* history: the last successful ImportAndUpsertSchema, [content, tools]
    hashSetBy,    \* history: the handler that wrote schema_hash last
    cycles,       \* cycles started
    importId,     \* ImportState: req.ID, a sequence of characters
    importDone,   \* ImportState has returned
    importAttrs,  \* ImportState: the attributes set in resp.State
    importDiag,   \* ImportState: the summaries of the errors of resp.Diagnostics
    hName,        \* policy handler: the handler that runs or ran last, "none" before
    hPlan,        \* policy handler: the planned internal_tool_ids and targeting
    hReq,         \* policy handler: the request struct it handed to the client
    hStored,      \* policy handler: resp.State.Set was called
    hPanic,       \* policy handler: it dereferenced a nil *Policy
    hDiag,        \* policy handler: the summaries of the errors of resp.Diagnostics
    rcFn,         \* find-or-create: the function the goroutines call
    rcObjs,       \* find-or-create: the server's objects of that kind, as it lists them
    rcPc,         \* find-or-create, per caller: where it is in its call
    rcName,       \* find-or-create, per caller: the name it was called with
    rcNew,        \* find-or-create, per caller: the object it found or created
    rcRet,        \* find-or-create, per caller: what the call returned, [obj, err]
    rcCalls,      \* find-or-create: calls started
    rcCreates,    \* history: per name, create requests sent
    rcOverlap,    \* history: a call started while another was running
    iuPc,         \* ImportAndUpsertSchema: where the call is
    iuArgs,       \* ImportAndUpsertSchema: its sourceType and sourceID
    iuTools,      \* ImportAndUpsertSchema: the local `tools`
    iuLog,        \* ImportAndUpsertSchema: the requests of the call, in the order sent
    iuErr,        \* ImportAndUpsertSchema: the error returned, "" for nil
    iuCalls,      \* ImportAndUpsertSchema: calls started
    rsKind,       \* resource handlers: the resource type of the one resource managed
    rsState,      \* resource handlers: the resource in the Terraform state
    rsPrev,       \* resource handlers: the state before the handler that ran last
    rsRemote,     \* resource handlers: the object on the server
    rsBody,       \* resource handlers: the JSON body of the last write request
    rsLog,        \* resource handlers: the methods of the requests the last handler sent
    rsDiag,       \* resource handlers: the summaries of the errors of resp.Diagnostics
    rsHandler,    \* resource handlers: the handler that ran last, "none" before
    rsOutcome,    \* resource handlers: what the client call of the last handler came to
    rsSteps,      \* resource handlers: handlers run
    pvPc,         \* Configure: where it is after Authenticate
    pvName,       \* Configure: applicationName, "" when the block has none
    dsClient,     \* ApplicationDataSource: d.client
    dsPc,         \* ApplicationDataSource.Read: where it is
    dsID,         \* ApplicationDataSource.Read: data.ID
    dsName,       \* ApplicationDataSource.Read: data.Name
    dsReads       \* ApplicationDataSource.Read: calls started

clientVars == <<accessToken, tokenExpiry>>
muVars == <<muWriter, muPending, muReaders>>
callVars == <<pc, op, token, expiry, authResp, ret, err, authSent, apiSent, bearer, status, calls>>
histVars == <<lastLock, expiryOf>>
ghostVars == <<reads, sentOnValid>>
appVars == <<ApplicationID, ApplicationName>>
opVars == <<opName, opArg, opc, log, result, tools, idx, deleteCalls, diag, inState,
            opsStarted, dupCreate, createsSent, returnedIds>>
\* What the concurrent callers of Spec leave alone, and what SpecOps leaves alone.
cfgVars == <<config, env, configured, Diagnostics, client, ResourceData, DataSourceData,
             regionLookup, authRequests, authOutcome>>
\* What the concurrent callers of Spec leave alone, what SpecOps leaves alone, and
\* what SpecCfg leaves alone.
impVars == <<file, tiConfig, tiState, tiStep, tiPc, tiHandler, tiPending, tiDiag,
             importCalls, lastImport, hashSetBy, cycles>>
isVars == <<importId, importDone, importAttrs, importDiag>>
hVars == <<hName, hPlan, hReq, hStored, hPanic, hDiag>>
rcVars == <<rcFn, rcObjs, rcPc, rcName, rcNew, rcRet, rcCalls, rcCreates, rcOverlap>>
iuVars == <<iuPc, iuArgs, iuTools, iuLog, iuErr, iuCalls>>
rsVars == <<rsKind, rsState, rsPrev, rsRemote, rsBody, rsLog, rsDiag, rsHandler, rsOutcome,
           rsSteps>>
dsVars == <<dsClient, dsPc, dsID, dsName, dsReads>>
pvVars == <<pvPc, pvName, dsVars>>
laterVars == <<rcVars, iuVars, rsVars, pvVars>>
outsideSpec == <<apps, appVars, opVars, cfgVars, impVars, isVars, hVars, laterVars>>
outsideOps == <<muVars, callVars, histVars, ghostVars, cfgVars, impVars, isVars, hVars,
                laterVars>>
outsideCfg == <<muVars, callVars, histVars, ghostVars, apps, appVars, opVars, impVars, isVars,
                hVars, laterVars>>
outsideImp == <<muVars, callVars, histVars, ghostVars, apps, appVars, opVars, cfgVars, isVars,
                hVars, laterVars>>
outsideParse == <<now, clientVars, nextToken, muVars, callVars, histVars, ghostVars,
                  apps, appVars, opVars, cfgVars, impVars, hVars, laterVars>>
outsidePolicy == <<muVars, callVars, histVars, ghostVars, apps, appVars, cfgVars, impVars,
                   isVars, tools, idx, deleteCalls, diag, inState, dupCreate, createsSent,
                   returnedIds, laterVars>>
tokenVars == <<now, clientVars, nextToken>>
earlierVars == <<muVars, callVars, histVars, ghostVars, apps, opVars, cfgVars, impVars,
                 isVars, hVars>>
outsideRace == <<earlierVars, tokenVars, iuVars, rsVars, pvVars>>
outsideUpsert == <<earlierVars, appVars, rcVars, rsVars, pvVars>>
outsideResource == <<earlierVars, tokenVars, appVars, rcVars, iuVars, pvVars>>
outsideProvider == <<earlierVars, tokenVars, iuVars, rsVars>>
vars == <<tokenVars, earlierVars, appVars, laterVars>>

NoResp == [token |-> EmptyToken, expiresIn |-> 0]
NoPair == <<EmptyToken, ZeroTime>>

\* ------------------------------------------------------------ pure helpers

\* A variant of CacheHit that serves any stored token, expired or not.
CacheHit_IgnoresExpiry(tok, exp, t) ==
    tok # EmptyToken

\* client.go:175: token != "" && time.Now().Before(expiry)
CacheHit(tok, exp, t) ==
    tok # EmptyToken /\ t < exp

\* A variant of ExpiryFor without the buffer: the token is cached for its whole life.
ExpiryFor_NoBuffer(t, expiresIn) ==
    t + expiresIn

\* client.go:158: time.Now().Add(time.Duration(authResp.ExpiresIn-60) * time.Second)
ExpiryFor(t, expiresIn) ==
    t + (expiresIn - ExpiryBuffer)

\* A variant of CanRLock that lets a reader in beside a writer (a read without the lock).
CanRLock_IgnoresWriter ==
    TRUE

\* sync.RWMutex: RLock proceeds unless a writer holds the lock or waits for it.
CanRLock ==
    muWriter = Nobody /\ muPending = {}

\* sync.RWMutex: a blocked Lock proceeds once no reader and no writer is left.
CanLock ==
    muWriter = Nobody /\ muReaders = {}

\* (nil, nil), and an empty resp.Diagnostics.
NoResult == [obj |-> Nil, err |-> ""]
NoDiag == [warnings |-> 0, errors |-> 0]

\* No client, and a provider block and an environment that set nothing.
NoClient == [created |-> FALSE, baseURL |-> "", clientID |-> "", secret |-> ""]
Null == [state |-> "null", value |-> ""]
Unknown == [state |-> "unknown", value |-> ""]
NoConfig == [region |-> Null, base_url |-> Null, client_id |-> Null, secret |-> Null]
NoEnv == [region |-> "", base_url |-> "", client_id |-> "", secret |-> ""]

\* Schema file paths and contents; "none" is the content of a path with no file.
Paths == {"a.json", "b.json"}
Contents == {"v1", "v2"}
NoFile == "none"

\* No agentlink_tools_import in the state, and no handler locals.
NoImportState ==
    [present |-> FALSE, id |-> "", schema_file |-> "", schema_type |-> "",
     schema_hash |-> "", tools_count |-> 0, tools_count_unknown |-> FALSE]
NoPending == [content |-> NoFile, tools |-> 0]
NoImport == [content |-> NoFile, tools |-> 0]

\* What a second check of the cache would find: an unexpired token, fully stored.
CacheValidNow ==
    muWriter = Nobody /\ accessToken # EmptyToken /\ now < tokenExpiry

\* ------------------------------------------------------------------- Init

\* NewClient: an empty cache, an unlocked mutex; every caller idle.
InitClient ==
    /\ now = 0
    /\ accessToken = EmptyToken
    /\ tokenExpiry = ZeroTime
    /\ muWriter = Nobody
    /\ muPending = {}
    /\ muReaders = {}
    /\ nextToken = 1
    /\ pc = [p \in Callers |-> "idle"]
    /\ op = [p \in Callers |-> "none"]
    /\ token = [p \in Callers |-> EmptyToken]
    /\ expiry = [p \in Callers |-> ZeroTime]
    /\ authResp = [p \in Callers |-> NoResp]
    /\ ret = [p \in Callers |-> EmptyToken]
    /\ err = [p \in Callers |-> ""]
    /\ authSent = [p \in Callers |-> 0]
    /\ apiSent = [p \in Callers |-> 0]
    /\ bearer = [p \in Callers |-> EmptyToken]
    /\ status = [p \in Callers |-> 0]
    /\ calls = 0
    /\ lastLock = Nobody
    /\ expiryOf = [t \in 1..MaxTokens |-> ZeroTime]
    /\ reads = [p \in Callers |-> 0]
    /\ sentOnValid = [p \in Callers |-> FALSE]
    /\ ApplicationID = Nil
    /\ ApplicationName = ""

\* No client operation has been called.
InitOp ==
    /\ opName = "none"
    /\ opArg = Nil
    /\ opc = "idle"
    /\ log = <<>>
    /\ result = NoResult
    /\ tools = <<>>
    /\ idx = 0
    /\ deleteCalls = 0
    /\ diag = NoDiag
    /\ inState = TRUE
    /\ opsStarted = 0
    /\ dupCreate = FALSE
    /\ createsSent = [n \in Names |-> 0]
    /\ returnedIds = [n \in Names |-> {}]

\* An attribute of resp.State that was not set, and one set to v.
Unset == [set |-> FALSE, value |-> <<>>]
SetTo(v) == [set |-> TRUE, value |-> v]
NoAttrs == [application_id |-> Unset, id |-> Unset]

\* The targeting attribute when null and when unknown, and a nil *PolicyTargeting.
NullTargeting == [state |-> "null", conditions |-> <<>>, result |-> ""]
UnknownTargeting == [state |-> "unknown", conditions |-> <<>>, result |-> ""]
NilTargeting == [set |-> FALSE, conditions |-> <<>>, result |-> ""]
NoPlan == [toolIDs |-> <<>>, targeting |-> NullTargeting]
NoRequest == [toolIDs |-> <<>>, targeting |-> NilTargeting]

\* No policy handler has been called.
InitH ==
    /\ hName = "none"
    /\ hPlan = NoPlan
    /\ hReq = NoRequest
    /\ hStored = FALSE
    /\ hPanic = FALSE
    /\ hDiag = {}

\* No goroutine has called a find-or-create function.
InitRc ==
    /\ rcFn = "none"
    /\ rcObjs = <<>>
    /\ rcPc = [p \in Callers |-> "idle"]
    /\ rcName = [p \in Callers |-> "app"]
    /\ rcNew = [p \in Callers |-> Nil]
    /\ rcRet = [p \in Callers |-> NoResult]
    /\ rcCalls = 0
    /\ rcCreates = [n \in Names |-> 0]
    /\ rcOverlap = FALSE

\* ImportAndUpsertSchema has not been called.
NoArgs == [sourceType |-> "", sourceID |-> ""]
InitIu ==
    /\ iuPc = "idle"
    /\ iuArgs = NoArgs
    /\ iuTools = <<>>
    /\ iuLog = <<>>
    /\ iuErr = ""
    /\ iuCalls = 0

\* A null list attribute, a resource that is not in the state, no object on the
\* server, and no request body.
NullList == [state |-> "null", value |-> <<>>]
NoResource ==
    [present |-> FALSE, description |-> Null, app_ids |-> NullList,
     internal_tool_ids |-> NullList, credit_card |-> FALSE]
NoRemote ==
    [exists |-> FALSE, description |-> "", appIDs |-> <<>>, toolIDs |-> <<>>,
     creditCard |-> FALSE]
NoBody ==
    [has |-> {}, description |-> "", appIDs |-> <<>>, toolIDs |-> <<>>,
     creditCard |-> FALSE]

\* No resource handler has been called.
InitRs ==
    /\ rsKind = "none"
    /\ rsState = NoResource
    /\ rsPrev = NoResource
    /\ rsRemote = NoRemote
    /\ rsBody = NoBody
    /\ rsLog = <<>>
    /\ rsDiag = {}
    /\ rsHandler = "none"
    /\ rsOutcome = "none"
    /\ rsSteps = 0

\* Configure has not reached the application, and the data source has no client.
NoID == [isNull |-> TRUE, value |-> Nil]
NoName == [isNull |-> TRUE, value |-> ""]
InitPv ==
    /\ pvPc = "none"
    /\ pvName = ""
    /\ dsClient = NoClient
    /\ dsPc = "idle"
    /\ dsID = NoID
    /\ dsName = NoName
    /\ dsReads = 0

\* The handlers and functions of the later specifications have not run.
InitLater ==
    /\ InitRc
    /\ InitIu
    /\ InitRs
    /\ InitPv

\* ImportState has not been called.
InitIs ==
    /\ importDone = FALSE
    /\ importAttrs = NoAttrs
    /\ importDiag = {}

\* No tools import resource is managed.
InitImp ==
    /\ file = [p \in Paths |-> NoFile]
    /\ tiConfig = [schema_file |-> "a.json", schema_type |-> "openapi"]
    /\ tiState = NoImportState
    /\ tiStep = "edit"
    /\ tiPc = "idle"
    /\ tiHandler = "none"
    /\ tiPending = NoPending
    /\ tiDiag = {}
    /\ importCalls = <<>>
    /\ lastImport = NoImport
    /\ hashSetBy = "none"
    /\ cycles = 0

\* Configure has not been called.
InitCfg ==
    /\ configured = FALSE
    /\ Diagnostics = {}
    /\ client = NoClient
    /\ ResourceData = NoClient
    /\ DataSourceData = NoClient
    /\ regionLookup = FALSE
    /\ authRequests = 0
    /\ authOutcome = "none"

Init ==
    /\ InitClient
    /\ InitOp
    /\ InitCfg
    /\ InitImp
    /\ InitIs
    /\ InitH
    /\ InitLater
    /\ importId = <<>>
    /\ apps = <<>>
    /\ config = NoConfig
    /\ env = NoEnv

\* ---------------------------------------------------------------- actions

\* The clock advances between any two steps.
Tick ==
    /\ now < MaxTime
    /\ now' = now + 1
    /\ UNCHANGED <<clientVars, muVars, nextToken, callVars, histVars, ghostVars, outsideSpec>>

\* The entry points a goroutine calls, and those of them that send an API request
\* with the token GetAccessToken returned.
EntryPoints == {"GetAccessToken", "DoRequest", "importSchema"}
Authenticated == {"DoRequest", "importSchema"}

\* A goroutine calls GetAccessToken, DoRequest or importSchema; the locals of its
\* previous call are gone.
Call(p) ==
    /\ UNCHANGED outsideSpec
    /\ pc[p] \in {"idle", "done"}
    /\ calls < MaxCalls
    /\ \E o \in EntryPoints : op' = [op EXCEPT ![p] = o]
    /\ pc' = [pc EXCEPT ![p] = "rlock"]
    /\ calls' = calls + 1
    /\ token' = [token EXCEPT ![p] = EmptyToken]
    /\ expiry' = [expiry EXCEPT ![p] = ZeroTime]
    /\ authResp' = [authResp EXCEPT ![p] = NoResp]
    /\ ret' = [ret EXCEPT ![p] = EmptyToken]
    /\ err' = [err EXCEPT ![p] = ""]
    /\ authSent' = [authSent EXCEPT ![p] = 0]
    /\ apiSent' = [apiSent EXCEPT ![p] = 0]
    /\ bearer' = [bearer EXCEPT ![p] = EmptyToken]
    /\ status' = [status EXCEPT ![p] = 0]
    /\ reads' = [reads EXCEPT ![p] = 0]
    /\ sentOnValid' = [sentOnValid EXCEPT ![p] = FALSE]
    /\ UNCHANGED <<now, clientVars, muVars, nextToken, histVars>>

\* GetAccessToken, c.mu.RLock()
GetAccessToken_RLock(p) ==
    /\ UNCHANGED outsideSpec
    /\ pc[p] = "rlock"
    /\ CanRLock
    /\ muReaders' = muReaders \cup {p}
    /\ pc' = [pc EXCEPT ![p] = "read_token"]
    /\ reads' = [reads EXCEPT ![p] = @ + 1]
    /\ UNCHANGED <<now, clientVars, muWriter, muPending, nextToken, op, token, expiry,
                   authResp, ret, err, authSent, apiSent, bearer, status, calls, histVars,
                   sentOnValid>>

\* GetAccessToken, token := c.accessToken
GetAccessToken_ReadToken(p) ==
    /\ UNCHANGED outsideSpec
    /\ pc[p] = "read_token"
    /\ token' = [token EXCEPT ![p] = accessToken]
    /\ pc' = [pc EXCEPT ![p] = "read_expiry"]
    /\ UNCHANGED <<now, clientVars, muVars, nextToken, op, expiry,
                   authResp, ret, err, authSent, apiSent, bearer, status, calls, histVars,
                   ghostVars>>

\* GetAccessToken, expiry := c.tokenExpiry
GetAccessToken_ReadExpiry(p) ==
    /\ UNCHANGED outsideSpec
    /\ pc[p] = "read_expiry"
    /\ expiry' = [expiry EXCEPT ![p] = tokenExpiry]
    /\ pc' = [pc EXCEPT ![p] = "runlock"]
    /\ UNCHANGED <<now, clientVars, muVars, nextToken, op, token,
                   authResp, ret, err, authSent, apiSent, bearer, status, calls, histVars,
                   ghostVars>>

\* A variant of GetAccessToken_RUnlock that keeps the read lock across the call of
\* Authenticate (a deferred RUnlock).
GetAccessToken_RUnlock_KeepsLock(p) ==
    /\ UNCHANGED outsideSpec
    /\ pc[p] = "runlock"
    /\ pc' = [pc EXCEPT ![p] = "check"]
    /\ UNCHANGED <<now, clientVars, muVars, nextToken, op, token, expiry,
                   authResp, ret, err, authSent, apiSent, bearer, status, calls, histVars,
                   ghostVars>>

\* GetAccessToken, c.mu.RUnlock()
GetAccessToken_RUnlock(p) ==
    /\ UNCHANGED outsideSpec
    /\ pc[p] = "runlock"
    /\ muReaders' = muReaders \ {p}
    /\ pc' = [pc EXCEPT ![p] = "check"]
    /\ UNCHANGED <<now, clientVars, muWriter, muPending, nextToken, op, token, expiry,
                   authResp, ret, err, authSent, apiSent, bearer, status, calls, histVars,
                   ghostVars>>

\* A variant of GetAccessToken_Check with double-checked locking: after a miss it
\* reads the cache again and authenticates only if that read misses too.
GetAccessToken_Check_Twice(p) ==
    /\ UNCHANGED outsideSpec
    /\ pc[p] = "check"
    /\ IF CacheHit(token[p], expiry[p], now)
       THEN /\ ret' = [ret EXCEPT ![p] = token[p]]
            /\ pc' = [pc EXCEPT ![p] = "got_token"]
            /\ UNCHANGED reads
       ELSE /\ CanRLock
            /\ reads' = [reads EXCEPT ![p] = @ + 1]
            /\ IF CacheHit(accessToken, tokenExpiry, now)
               THEN /\ ret' = [ret EXCEPT ![p] = accessToken]
                    /\ pc' = [pc EXCEPT ![p] = "got_token"]
               ELSE /\ pc' = [pc EXCEPT ![p] = "auth_send"]
                    /\ UNCHANGED ret
    /\ UNCHANGED <<now, clientVars, muVars, nextToken, op, token, expiry,
                   authResp, err, authSent, apiSent, bearer, status, calls, histVars,
                   sentOnValid>>

\* GetAccessToken, the check of the copies: return the cached token, or go on to
\* c.Authenticate(ctx).
GetAccessToken_Check(p) ==
    /\ UNCHANGED outsideSpec
    /\ pc[p] = "check"
    /\ IF CacheHit(token[p], expiry[p], now)
       THEN /\ ret' = [ret EXCEPT ![p] = token[p]]
            /\ pc' = [pc EXCEPT ![p] = "got_token"]
       ELSE /\ pc' = [pc EXCEPT ![p] = "auth_send"]
            /\ UNCHANGED ret
    /\ UNCHANGED <<now, clientVars, muVars, nextToken, op, token, expiry,
                   authResp, err, authSent, apiSent, bearer, status, calls, histVars,
                   ghostVars>>

\* A variant of Authenticate_SendFail that sends the request again after a first failure.
Authenticate_SendFail_Retries(p) ==
    /\ UNCHANGED outsideSpec
    /\ pc[p] = "auth_send"
    /\ \E f \in AuthFailures : err' = [err EXCEPT ![p] = IF authSent[p] = 0 THEN "" ELSE f]
    /\ authSent' = [authSent EXCEPT ![p] = @ + 1]
    /\ pc' = [pc EXCEPT ![p] = IF authSent[p] = 0 THEN "auth_send" ELSE "got_token"]
    /\ sentOnValid' = [sentOnValid EXCEPT ![p] = CacheValidNow]
    /\ UNCHANGED <<now, clientVars, muVars, nextToken, op, token, expiry,
                   authResp, ret, apiSent, bearer, status, calls, histVars, reads>>

\* A variant of Authenticate_SendFail that clears the cache when the request fails.
Authenticate_SendFail_ClearsCache(p) ==
    /\ UNCHANGED outsideSpec
    /\ pc[p] = "auth_send"
    /\ \E f \in AuthFailures : err' = [err EXCEPT ![p] = f]
    /\ authSent' = [authSent EXCEPT ![p] = @ + 1]
    /\ pc' = [pc EXCEPT ![p] = "got_token"]
    /\ sentOnValid' = [sentOnValid EXCEPT ![p] = CacheValidNow]
    /\ accessToken' = EmptyToken
    /\ tokenExpiry' = ZeroTime
    /\ UNCHANGED <<now, muVars, nextToken, op, token, expiry,
                   authResp, ret, apiSent, bearer, status, calls, histVars, reads>>

\* Authenticate, c.httpClient.Do(req) for POST /auth/vendor and the handling of the
\* answer: a transport error, a status other than 200 and an undecodable body each
\* return an error, which GetAccessToken returns as it is.
Authenticate_SendFail(p) ==
    /\ UNCHANGED outsideSpec
    /\ pc[p] = "auth_send"
    /\ \E f \in AuthFailures : err' = [err EXCEPT ![p] = f]
    /\ authSent' = [authSent EXCEPT ![p] = @ + 1]
    /\ pc' = [pc EXCEPT ![p] = "got_token"]
    /\ sentOnValid' = [sentOnValid EXCEPT ![p] = CacheValidNow]
    /\ UNCHANGED <<now, clientVars, muVars, nextToken, op, token, expiry,
                   authResp, ret, apiSent, bearer, status, calls, histVars, reads>>

\* Authenticate, c.httpClient.Do(req) answered 200 with a decodable AuthResponse.
Authenticate_SendOK(p) ==
    /\ UNCHANGED outsideSpec
    /\ pc[p] = "auth_send"
    /\ nextToken <= MaxTokens
    /\ \E e \in ExpiresInValues :
          authResp' = [authResp EXCEPT ![p] = [token |-> nextToken, expiresIn |-> e]]
    /\ nextToken' = nextToken + 1
    /\ authSent' = [authSent EXCEPT ![p] = @ + 1]
    /\ pc' = [pc EXCEPT ![p] = "auth_lock"]
    /\ sentOnValid' = [sentOnValid EXCEPT ![p] = CacheValidNow]
    /\ UNCHANGED <<now, clientVars, muVars, op, token, expiry,
                   ret, err, apiSent, bearer, status, calls, histVars, reads>>

\* Authenticate, c.mu.Lock() is called: the caller waits for the lock.
Authenticate_LockCall(p) ==
    /\ UNCHANGED outsideSpec
    /\ pc[p] = "auth_lock"
    /\ muPending' = muPending \cup {p}
    /\ pc' = [pc EXCEPT ![p] = "auth_locking"]
    /\ UNCHANGED <<now, clientVars, muWriter, muReaders, nextToken, op, token, expiry,
                   authResp, ret, err, authSent, apiSent, bearer, status, calls, histVars,
                   ghostVars>>

\* Authenticate, c.mu.Lock() returns.
Authenticate_Lock(p) ==
    /\ UNCHANGED outsideSpec
    /\ pc[p] = "auth_locking"
    /\ CanLock
    /\ muWriter' = p
    /\ muPending' = muPending \ {p}
    /\ lastLock' = p
    /\ pc' = [pc EXCEPT ![p] = "write_token"]
    /\ UNCHANGED <<now, clientVars, muReaders, nextToken, op, token, expiry,
                   authResp, ret, err, authSent, apiSent, bearer, status, calls,
                   expiryOf, ghostVars>>

\* A variant of Authenticate_WriteToken in which the first refresh wins: a caller that
\* finds an unexpired token stored leaves the cache as it is.
Authenticate_WriteToken_KeepsValid(p) ==
    /\ UNCHANGED outsideSpec
    /\ pc[p] = "write_token"
    /\ IF accessToken # EmptyToken /\ now < tokenExpiry
       THEN /\ pc' = [pc EXCEPT ![p] = "auth_unlock"]
            /\ UNCHANGED accessToken
       ELSE /\ accessToken' = authResp[p].token
            /\ pc' = [pc EXCEPT ![p] = "write_expiry"]
    /\ UNCHANGED <<now, tokenExpiry, muVars, nextToken, op, token, expiry,
                   authResp, ret, err, authSent, apiSent, bearer, status, calls, histVars,
                   ghostVars>>

\* Authenticate, c.accessToken = authResp.Token
Authenticate_WriteToken(p) ==
    /\ UNCHANGED outsideSpec
    /\ pc[p] = "write_token"
    /\ accessToken' = authResp[p].token
    /\ pc' = [pc EXCEPT ![p] = "write_expiry"]
    /\ UNCHANGED <<now, tokenExpiry, muVars, nextToken, op, token, expiry,
                   authResp, ret, err, authSent, apiSent, bearer, status, calls, histVars,
                   ghostVars>>

\* Authenticate, c.tokenExpiry = time.Now().Add(...)
Authenticate_WriteExpiry(p) ==
    /\ UNCHANGED outsideSpec
    /\ pc[p] = "write_expiry"
    /\ tokenExpiry' = ExpiryFor(now, authResp[p].expiresIn)
    /\ expiryOf' = [expiryOf EXCEPT ![authResp[p].token] = tokenExpiry']
    /\ pc' = [pc EXCEPT ![p] = "auth_unlock"]
    /\ UNCHANGED <<now, accessToken, muVars, nextToken, op, token, expiry,
                   authResp, ret, err, authSent, apiSent, bearer, status, calls, lastLock,
                   ghostVars>>

\* Authenticate, c.mu.Unlock(); Authenticate returns nil.
Authenticate_Unlock(p) ==
    /\ UNCHANGED outsideSpec
    /\ pc[p] = "auth_unlock"
    /\ muWriter' = Nobody
    /\ pc' = [pc EXCEPT ![p] = "rlock2"]
    /\ UNCHANGED <<now, clientVars, muPending, muReaders, nextToken, op, token, expiry,
                   authResp, ret, err, authSent, apiSent, bearer, status, calls, histVars,
                   ghostVars>>

\* GetAccessToken after Authenticate returned nil, c.mu.RLock()
GetAccessToken_RLock2(p) ==
    /\ UNCHANGED outsideSpec
    /\ pc[p] = "rlock2"
    /\ CanRLock
    /\ muReaders' = muReaders \cup {p}
    /\ pc' = [pc EXCEPT ![p] = "read2"]
    /\ reads' = [reads EXCEPT ![p] = @ + 1]
    /\ UNCHANGED <<now, clientVars, muWriter, muPending, nextToken, op, token, expiry,
                   authResp, ret, err, authSent, apiSent, bearer, status, calls, histVars,
                   sentOnValid>>

\* GetAccessToken, return c.accessToken, nil with the deferred c.mu.RUnlock()
GetAccessToken_Read2(p) ==
    /\ UNCHANGED outsideSpec
    /\ pc[p] = "read2"
    /\ ret' = [ret EXCEPT ![p] = accessToken]
    /\ muReaders' = muReaders \ {p}
    /\ pc' = [pc EXCEPT ![p] = "got_token"]
    /\ UNCHANGED <<now, clientVars, muWriter, muPending, nextToken, op, token, expiry,
                   authResp, err, authSent, apiSent, bearer, status, calls, histVars,
                   ghostVars>>

\* A variant of GetAccessToken_Return in which DoRequest and importSchema go on to
\* send their request whatever GetAccessToken returned.
GetAccessToken_Return_IgnoresError(p) ==
    /\ UNCHANGED outsideSpec
    /\ pc[p] = "got_token"
    /\ pc' = [pc EXCEPT ![p] = IF op[p] \in Authenticated THEN "req_send" ELSE "done"]
    /\ UNCHANGED <<now, clientVars, muVars, nextToken, op, token, expiry,
                   authResp, ret, err, authSent, apiSent, bearer, status, calls, histVars,
                   ghostVars>>

\* GetAccessToken has returned to the goroutine that called it directly, or to
\* DoRequest or importSchema, which return "failed to get access token" on an error.
GetAccessToken_Return(p) ==
    /\ UNCHANGED outsideSpec
    /\ pc[p] = "got_token"
    /\ pc' = [pc EXCEPT ![p] =
                IF op[p] \in Authenticated /\ err[p] = "" THEN "req_send" ELSE "done"]
    /\ UNCHANGED <<now, clientVars, muVars, nextToken, op, token, expiry,
                   authResp, ret, err, authSent, apiSent, bearer, status, calls, histVars,
                   ghostVars>>

\* A variant of DoRequest_Send that drops the cached token when the API answers 401.
DoRequest_Send_InvalidatesOn401(p) ==
    /\ UNCHANGED outsideSpec
    /\ pc[p] = "req_send"
    /\ bearer' = [bearer EXCEPT ![p] = ret[p]]
    /\ apiSent' = [apiSent EXCEPT ![p] = @ + 1]
    /\ \/ /\ err' = [err EXCEPT ![p] = "request_failed"]
          /\ UNCHANGED <<status, clientVars>>
       \/ /\ \E s \in ApiStatuses :
                /\ status' = [status EXCEPT ![p] = s]
                /\ accessToken' = IF s = StatusUnauthorized THEN EmptyToken ELSE accessToken
          /\ UNCHANGED <<err, tokenExpiry>>
    /\ pc' = [pc EXCEPT ![p] = "done"]
    /\ UNCHANGED <<now, muVars, nextToken, op, token, expiry,
                   authResp, ret, authSent, calls, histVars, ghostVars>>

\* DoRequest and importSchema, c.httpClient.Do(req) with "Authorization: Bearer
\* <token>": a transport error is returned, any response goes to the caller's checks.
DoRequest_Send(p) ==
    /\ UNCHANGED outsideSpec
    /\ pc[p] = "req_send"
    /\ bearer' = [bearer EXCEPT ![p] = ret[p]]
    /\ apiSent' = [apiSent EXCEPT ![p] = @ + 1]
    /\ \/ /\ err' = [err EXCEPT ![p] = "request_failed"]
          /\ UNCHANGED status
       \/ /\ \E s \in ApiStatuses : status' = [status EXCEPT ![p] = s]
          /\ UNCHANGED err
    /\ pc' = [pc EXCEPT ![p] = "done"]
    /\ UNCHANGED <<now, clientVars, muVars, nextToken, op, token, expiry,
                   authResp, ret, authSent, calls, histVars, ghostVars>>

\* The call of each entry point.
CallGetAccessToken(p) ==
    /\ Call(p)
    /\ op'[p] = "GetAccessToken"
CallDoRequest(p) ==
    /\ Call(p)
    /\ op'[p] = "DoRequest"
CallImportSchema(p) ==
    /\ Call(p)
    /\ op'[p] = "importSchema"

\* Concurrent calls of GetAccessToken and DoRequest.
Next ==
    \/ Tick
    \/ \E p \in Callers :
        \/ CallGetAccessToken(p)
        \/ CallDoRequest(p)
        \/ GetAccessToken_RLock(p)
        \/ GetAccessToken_ReadToken(p)
        \/ GetAccessToken_ReadExpiry(p)
        \/ GetAccessToken_RUnlock(p)
        \/ GetAccessToken_Check(p)
        \/ Authenticate_SendFail(p)
        \/ Authenticate_SendOK(p)
        \/ Authenticate_LockCall(p)
        \/ Authenticate_Lock(p)
        \/ Authenticate_WriteToken(p)
        \/ Authenticate_WriteExpiry(p)
        \/ Authenticate_Unlock(p)
        \/ GetAccessToken_RLock2(p)
        \/ GetAccessToken_Read2(p)
        \/ GetAccessToken_Return(p)
        \/ DoRequest_Send(p)

Spec == Init /\ [][Next]_vars

\* A step of goroutine p inside a call of GetAccessToken: every step but the call
\* itself, which is the caller's choice.
Step(p) ==
    \/ GetAccessToken_RLock(p)
    \/ GetAccessToken_ReadToken(p)
    \/ GetAccessToken_ReadExpiry(p)
    \/ GetAccessToken_RUnlock(p)
    \/ GetAccessToken_Check(p)
    \/ Authenticate_SendFail(p)
    \/ Authenticate_SendOK(p)
    \/ Authenticate_LockCall(p)
    \/ Authenticate_Lock(p)
    \/ Authenticate_WriteToken(p)
    \/ Authenticate_WriteExpiry(p)
    \/ Authenticate_Unlock(p)
    \/ GetAccessToken_RLock2(p)
    \/ GetAccessToken_Read2(p)
    \/ GetAccessToken_Return(p)

\* The Go scheduler runs every runnable goroutine, and every HTTP request returns or
\* times out (the http.Client has a Timeout): a goroutine that can take a step takes it.
Fairness == \A p \in Callers : WF_vars(Step(p))

\* Concurrent calls of GetAccessToken alone, the clock standing still: a token issued
\* with ExpiresIn = 60 has expired as it is stored and one issued with 61 has not, so
\* both outcomes of the cache check occur.
NextLive ==
    \E p \in Callers :
        \/ CallGetAccessToken(p)
        \/ Step(p)

SpecLive == Init /\ [][NextLive]_vars /\ Fairness

\* Concurrent calls of the two entry points that send an authenticated request.
NextAuth ==
    \/ Tick
    \/ \E p \in Callers :
        \/ CallDoRequest(p)
        \/ CallImportSchema(p)
        \/ Step(p)
        \/ DoRequest_Send(p)

SpecAuth == Init /\ [][NextAuth]_vars

\* ---------------------------------------------------------------- SpecOps
\* One goroutine, one client operation at a time.

\* GetAccessToken with Authenticate, run by the only goroutine: `a` is what happens
\* ("hit": the cached token is served; "ok": POST /auth/vendor is answered with a new
\* token that expires in `e`; otherwise the way the authentication fails).
AcquireToken(a, e) ==
    /\ (a = "hit") <=> CacheHit(accessToken, tokenExpiry, now)
    /\ a = "ok" => nextToken <= MaxTokens
    /\ IF a = "ok"
       THEN /\ accessToken' = nextToken
            /\ tokenExpiry' = ExpiryFor(now, e)
            /\ nextToken' = nextToken + 1
       ELSE UNCHANGED <<accessToken, tokenExpiry, nextToken>>

\* DoRequest goes on to httpClient.Do only with a token.
TokenAcquired(a) ==
    a \in {"hit", "ok"}

\* One request of the log.
Sent(method, path, id, r) ==
    [method |-> method, path |-> path, id |-> id,
     kind |-> r.kind, status |-> r.status, decodable |-> r.decodable]

\* DoRequest returned "failed to get access token".
TokenError == [obj |-> Nil, err |-> "token"]

GetApplicationByID_Result_NotFoundIsError(r, id) ==
    IF r.kind = "error" THEN [obj |-> Nil, err |-> "request"]
    ELSE IF r.status # StatusOK THEN [obj |-> Nil, err |-> "status"]
    ELSE IF ~r.decodable THEN [obj |-> Nil, err |-> "decode"]
    ELSE [obj |-> id, err |-> ""]

\* GetApplicationByID, from DoRequest's return on: its (object, error) for the
\* answer r to GET /applications/resources/applications/v1/<id>.
GetApplicationByID_Result(r, id) ==
    IF r.kind = "error" THEN [obj |-> Nil, err |-> "request"]
    ELSE IF r.status = StatusNotFound THEN [obj |-> Nil, err |-> ""]
    ELSE IF r.status # StatusOK THEN [obj |-> Nil, err |-> "status"]
    ELSE IF ~r.decodable THEN [obj |-> Nil, err |-> "decode"]
    ELSE [obj |-> id, err |-> ""]

\* GetMcpConfiguration, from DoRequest's return on.
GetMcpConfiguration_Result(r, id) ==
    IF r.kind = "error" THEN [obj |-> Nil, err |-> "request"]
    ELSE IF r.status = StatusNotFound THEN [obj |-> Nil, err |-> ""]
    ELSE IF r.status # StatusOK THEN [obj |-> Nil, err |-> "status"]
    ELSE IF ~r.decodable THEN [obj |-> Nil, err |-> "decode"]
    ELSE [obj |-> id, err |-> ""]

\* GetConditionalPolicy, from DoRequest's return on.
GetConditionalPolicy_Result(r, id) ==
    IF r.kind = "error" THEN [obj |-> Nil, err |-> "request"]
    ELSE IF r.status = StatusNotFound THEN [obj |-> Nil, err |-> ""]
    ELSE IF r.status # StatusOK THEN [obj |-> Nil, err |-> "status"]
    ELSE IF ~r.decodable THEN [obj |-> Nil, err |-> "decode"]
    ELSE [obj |-> id, err |-> ""]

\* GetRbacPolicy, from DoRequest's return on.
GetRbacPolicy_Result(r, id) ==
    IF r.kind = "error" THEN [obj |-> Nil, err |-> "request"]
    ELSE IF r.status = StatusNotFound THEN [obj |-> Nil, err |-> ""]
    ELSE IF r.status # StatusOK THEN [obj |-> Nil, err |-> "status"]
    ELSE IF ~r.decodable THEN [obj |-> Nil, err |-> "decode"]
    ELSE [obj |-> id, err |-> ""]

\* GetMaskingPolicy, from DoRequest's return on.
GetMaskingPolicy_Result(r, id) ==
    IF r.kind = "error" THEN [obj |-> Nil, err |-> "request"]
    ELSE IF r.status = StatusNotFound THEN [obj |-> Nil, err |-> ""]
    ELSE IF r.status # StatusOK THEN [obj |-> Nil, err |-> "status"]
    ELSE IF ~r.decodable THEN [obj |-> Nil, err |-> "decode"]
    ELSE [obj |-> id, err |-> ""]

\* The getter that runs at "get": UpdateApplication ends in GetApplicationByID.
GetterResult(name, r, id) ==
    CASE name \in {"GetApplicationByID", "UpdateApplication"} -> GetApplicationByID_Result(r, id)
      [] name = "GetMcpConfiguration" -> GetMcpConfiguration_Result(r, id)
      [] name = "GetConditionalPolicy" -> GetConditionalPolicy_Result(r, id)
      [] name = "GetRbacPolicy" -> GetRbacPolicy_Result(r, id)
      [] name = "GetMaskingPolicy" -> GetMaskingPolicy_Result(r, id)

\* The path of the getter's request.
GetterPath(name) ==
    CASE name \in {"GetApplicationByID", "UpdateApplication"} -> "applications"
      [] name = "GetMcpConfiguration" -> "app-mcp-configurations"
      [] name = "GetConditionalPolicy" -> "policies"
      [] name = "GetRbacPolicy" -> "policies/rbac"
      [] name = "GetMaskingPolicy" -> "policies/masking"

UpdateApplication_PatchOK_AnyStatus(r) ==
    r.kind = "resp"

\* UpdateApplication: whether the answer to the PATCH lets it go on to the GET.
UpdateApplication_PatchOK(r) ==
    r.kind = "resp" /\ r.status \in {StatusOK, StatusCreated}

\* GetApplications: whether the answer to the listing yields the applications.
GetApplications_OK(r) ==
    r.kind = "resp" /\ r.status = StatusOK /\ r.decodable

\* CreateApplication: whether the answer to the POST yields the new application.
CreateApplication_OK(r) ==
    r.kind = "resp" /\ r.status = StatusCreated /\ r.decodable

NameMatches_FoldCase(appName, name) ==
    appName = name \/ {appName, name} = {"app", "App"}

\* FindApplicationByName: app.Name == name
NameMatches(appName, name) ==
    appName = name

\* FindApplicationByName: the position of the first listed application with the
\* name, 0 if there is none.
FindApplicationByName(list, name) ==
    IF \E i \in 1..Len(list) : NameMatches(list[i].name, name)
    THEN CHOOSE i \in 1..Len(list) :
            /\ NameMatches(list[i].name, name)
            /\ \A j \in 1..(i - 1) : ~NameMatches(list[j].name, name)
    ELSE 0

\* DeleteToolsBySource: whether the answer to the listing yields the tools.
ListTools_OK(r) ==
    r.kind = "resp" /\ r.status = StatusOK /\ r.decodable

\* DeleteTool: whether the answer to the DELETE is a success.
DeleteTool_OK(r) ==
    r.kind = "resp" /\ r.status \in {StatusOK, StatusNoContent}

\* The listings of tools the server may answer with: tools 1..n.
ToolLists == {[i \in 1..n |-> i] : n \in 0..MaxTools}

\* What the start of an operation resets.
BeginOp(name, arg, at) ==
    /\ opc \in {"idle", "done"}
    /\ opsStarted < MaxOps
    /\ opsStarted' = opsStarted + 1
    /\ opName' = name
    /\ opArg' = arg
    /\ opc' = at
    /\ log' = <<>>
    /\ result' = NoResult
    /\ tools' = <<>>
    /\ idx' = 0
    /\ deleteCalls' = 0
    /\ diag' = NoDiag
    /\ UNCHANGED <<now, clientVars, nextToken, apps, appVars, dupCreate, createsSent,
                   returnedIds, outsideOps>>

\* A call of one of the five getters.
Start_Get ==
    /\ \E name \in Getters, id \in ObjectIds : BeginOp(name, id, "get")
    /\ UNCHANGED inState

\* A call of UpdateApplication.
Start_UpdateApplication ==
    /\ \E id \in ObjectIds : BeginOp("UpdateApplication", id, "patch")
    /\ UNCHANGED inState

\* A call of FindOrCreateApplication.
Start_FindOrCreateApplication ==
    /\ \E name \in Names : BeginOp("FindOrCreateApplication", name, "list")
    /\ UNCHANGED inState

\* Terraform calls ToolsImportResource.Delete for a resource of the state.
Start_ToolsImportDelete ==
    /\ BeginOp("ToolsImportDelete", Nil, "state_get")
    /\ inState' = TRUE

\* The getter's DoRequest and what the getter returns for it.
Get_Request ==
    /\ opc = "get"
    /\ \E a \in TokenOutcomes, e \in ExpiresInValues, r \in ApiResponses :
          /\ AcquireToken(a, e)
          /\ IF TokenAcquired(a)
             THEN /\ log' = Append(log, Sent("GET", GetterPath(opName), opArg, r))
                  /\ result' = GetterResult(opName, r, opArg)
             ELSE /\ result' = TokenError
                  /\ UNCHANGED log
    /\ opc' = "done"
    /\ UNCHANGED <<now, apps, appVars, opName, opArg, tools, idx, deleteCalls, diag,
                   inState, opsStarted, dupCreate, createsSent, returnedIds, outsideOps>>

\* UpdateApplication: the PATCH; on 200 or 201 it goes on to GetApplicationByID.
UpdateApplication_Patch ==
    /\ opc = "patch"
    /\ \E a \in TokenOutcomes, e \in ExpiresInValues, r \in BodilessResponses :
          /\ AcquireToken(a, e)
          /\ IF ~TokenAcquired(a)
             THEN /\ result' = TokenError
                  /\ opc' = "done"
                  /\ UNCHANGED log
             ELSE /\ log' = Append(log, Sent("PATCH", "applications", opArg, r))
                  /\ IF UpdateApplication_PatchOK(r)
                     THEN /\ opc' = "get"
                          /\ UNCHANGED result
                     ELSE /\ opc' = "done"
                          /\ result' = [obj |-> Nil,
                                        err |-> IF r.kind = "error" THEN "request" ELSE "status"]
    /\ UNCHANGED <<now, apps, appVars, opName, opArg, tools, idx, deleteCalls, diag,
                   inState, opsStarted, dupCreate, createsSent, returnedIds, outsideOps>>

\* FindOrCreateApplication: FindApplicationByName (GetApplications and the search);
\* a match is stored in the client and returned, no match leads to CreateApplication.
FindOrCreateApplication_Find ==
    /\ opc = "list"
    /\ \E a \in TokenOutcomes, e \in ExpiresInValues, r \in ApiResponses :
          /\ AcquireToken(a, e)
          /\ IF ~TokenAcquired(a)
             THEN /\ result' = TokenError
                  /\ opc' = "done"
                  /\ UNCHANGED <<log, appVars, returnedIds>>
             ELSE /\ log' = Append(log, Sent("GET", "applications", Nil, r))
                  /\ IF ~GetApplications_OK(r)
                     THEN /\ result' = [obj |-> Nil,
                                        err |-> IF r.kind = "error" THEN "request"
                                                ELSE IF r.status # StatusOK THEN "status"
                                                ELSE "decode"]
                          /\ opc' = "done"
                          /\ UNCHANGED <<appVars, returnedIds>>
                     ELSE LET i == FindApplicationByName(apps, opArg) IN
                          IF i # 0
                          THEN /\ ApplicationID' = apps[i].id
                               /\ ApplicationName' = apps[i].name
                               /\ result' = [obj |-> apps[i].id, err |-> ""]
                               /\ returnedIds' = [returnedIds EXCEPT ![opArg] = @ \cup {apps[i].id}]
                               /\ opc' = "done"
                          ELSE /\ opc' = "create"
                               /\ UNCHANGED <<result, appVars, returnedIds>>
    /\ UNCHANGED <<now, apps, opName, opArg, tools, idx, deleteCalls, diag,
                   inState, opsStarted, dupCreate, createsSent, outsideOps>>

\* FindOrCreateApplication: CreateApplication. The server creates the application or
\* not (it has created it when it answers 201); only 201 with a decodable body is
\* returned as the new application and stored in the client.
FindOrCreateApplication_Create ==
    /\ opc = "create"
    /\ \E a \in TokenOutcomes, e \in ExpiresInValues, r \in ApiResponses, created \in BOOLEAN :
          /\ AcquireToken(a, e)
          /\ IF ~TokenAcquired(a)
             THEN /\ result' = TokenError
                  /\ UNCHANGED <<log, apps, appVars, dupCreate, createsSent, returnedIds>>
             ELSE /\ created => Len(apps) < MaxApps
                  /\ (r.kind = "resp" /\ r.status = StatusCreated) => created
                  /\ log' = Append(log, Sent("POST", "applications", Nil, r))
                  /\ createsSent' = [createsSent EXCEPT ![opArg] = @ + 1]
                  /\ dupCreate' = (dupCreate \/ \E i \in 1..Len(apps) : apps[i].name = opArg)
                  /\ apps' = IF created
                             THEN Append(apps, [id |-> Len(apps) + 1, name |-> opArg])
                             ELSE apps
                  /\ IF CreateApplication_OK(r)
                     THEN /\ ApplicationID' = Len(apps) + 1
                          /\ ApplicationName' = opArg
                          /\ result' = [obj |-> Len(apps) + 1, err |-> ""]
                          /\ returnedIds' = [returnedIds EXCEPT ![opArg] = @ \cup {Len(apps) + 1}]
                     ELSE /\ result' = [obj |-> Nil,
                                        err |-> IF r.kind = "error" THEN "request"
                                                ELSE IF r.status # StatusCreated THEN "status"
                                                ELSE "decode"]
                          /\ UNCHANGED <<appVars, returnedIds>>
    /\ opc' = "done"
    /\ UNCHANGED <<now, opName, opArg, tools, idx, deleteCalls, diag,
                   inState, opsStarted, outsideOps>>

\* ToolsImportResource.Delete: req.State.Get. With an error in the diagnostics Delete
\* returns, and the framework keeps the resource in the state.
ToolsImportDelete_StateGet ==
    /\ opc = "state_get"
    /\ \/ /\ opc' = "list_tools"
          /\ UNCHANGED diag
       \/ /\ diag' = [diag EXCEPT !.errors = @ + 1]
          /\ opc' = "done"
    /\ UNCHANGED <<now, clientVars, nextToken, apps, appVars, opName, opArg, log, result,
                   tools, idx, deleteCalls, inState, opsStarted, dupCreate, createsSent,
                   returnedIds, outsideOps>>

ToolsImportDelete_Finish_AddsError(e) ==
    /\ diag' = IF e # "" THEN [diag EXCEPT !.errors = @ + 1] ELSE diag
    /\ inState' = (diag'.errors > 0)
    /\ opc' = "done"

\* What ToolsImportResource.Delete does once DeleteToolsBySource has returned `e`: a
\* warning for an error. The framework then removes the resource from the state
\* unless the diagnostics hold an error.
ToolsImportDelete_Finish(e) ==
    /\ diag' = IF e # "" THEN [diag EXCEPT !.warnings = @ + 1] ELSE diag
    /\ inState' = (diag'.errors > 0)
    /\ opc' = "done"

\* DeleteToolsBySource: the listing of the source's tools. A failure is returned; an
\* empty listing returns nil; otherwise the range loop starts.
DeleteToolsBySource_List ==
    /\ opc = "list_tools"
    /\ \E a \in TokenOutcomes, e \in ExpiresInValues, r \in ApiResponses, items \in ToolLists :
          /\ AcquireToken(a, e)
          /\ IF ~TokenAcquired(a)
             THEN /\ result' = TokenError
                  /\ ToolsImportDelete_Finish("token")
                  /\ UNCHANGED <<log, tools, idx>>
             ELSE /\ log' = Append(log, Sent("GET", "internal-tools", Nil, r))
                  /\ IF ~ListTools_OK(r)
                     THEN /\ result' = [obj |-> Nil,
                                        err |-> IF r.kind = "error" THEN "request"
                                                ELSE IF r.status # StatusOK THEN "status"
                                                ELSE "decode"]
                          /\ ToolsImportDelete_Finish(result'.err)
                          /\ UNCHANGED <<tools, idx>>
                     ELSE /\ tools' = items
                          /\ idx' = 1
                          /\ UNCHANGED result
                          /\ IF items = <<>>
                             THEN ToolsImportDelete_Finish("")
                             ELSE /\ opc' = "delete_tool"
                                  /\ UNCHANGED <<diag, inState>>
    /\ UNCHANGED <<now, apps, appVars, opName, opArg, deleteCalls,
                   opsStarted, dupCreate, createsSent, returnedIds, outsideOps>>

\* DeleteToolsBySource: one turn of the range loop, c.DeleteTool(ctx, appID, tool.ID).
\* Its error is logged and dropped; after the last tool DeleteToolsBySource returns nil.
DeleteToolsBySource_DeleteTool ==
    /\ opc = "delete_tool"
    /\ \E a \in TokenOutcomes, e \in ExpiresInValues, r \in BodilessResponses :
          /\ AcquireToken(a, e)
          /\ IF TokenAcquired(a)
             THEN log' = Append(log, Sent("DELETE", "internal-tools", tools[idx], r))
             ELSE UNCHANGED log
    /\ deleteCalls' = deleteCalls + 1
    /\ idx' = idx + 1
    /\ IF idx = Len(tools)
       THEN ToolsImportDelete_Finish("")
       ELSE UNCHANGED <<opc, diag, inState>>
    /\ UNCHANGED <<now, apps, appVars, opName, opArg, result, tools,
                   opsStarted, dupCreate, createsSent, returnedIds, outsideOps>>

\* The server as SpecOps finds it: no application, or one with either name.
InitOps ==
    /\ InitClient
    /\ InitOp
    /\ InitCfg
    /\ InitImp
    /\ InitIs
    /\ InitH
    /\ InitLater
    /\ importId = <<>>
    /\ apps \in {<<>>} \cup {<<[id |-> 1, name |-> n]>> : n \in Names}
    /\ config = NoConfig
    /\ env = NoEnv

NextOps ==
    \/ Tick
    \/ Start_Get
    \/ Start_UpdateApplication
    \/ Start_FindOrCreateApplication
    \/ Start_ToolsImportDelete
    \/ Get_Request
    \/ UpdateApplication_Patch
    \/ FindOrCreateApplication_Find
    \/ FindOrCreateApplication_Create
    \/ ToolsImportDelete_StateGet
    \/ DeleteToolsBySource_List
    \/ DeleteToolsBySource_DeleteTool

SpecOps == InitOps /\ [][NextOps]_vars

\* ---------------------------------------------------------------- SpecCfg

\* provider.go:21: var regionURLs
regionURLs ==
    [r \in {"stg", "eu", "us", "au", "ca", "uk"} |->
        CASE r = "stg" -> "https://api.stg.frontegg.com"
          [] r = "eu" -> "https://api.frontegg.com"
          [] r = "us" -> "https://api.us.frontegg.com"
          [] r = "au" -> "https://api.au.frontegg.com"
          [] r = "ca" -> "https://api.ca.frontegg.com"
          [] r = "uk" -> "https://api.uk.frontegg.com"]

\* A known attribute of the provider block.
Known(v) ==
    [state |-> "known", value |-> v]

\* The provider blocks and the environments Configure is tried on: a region that is
\* valid, invalid ("xx") or empty, a base URL, credentials, each set or not.
Configs ==
    [region : {Null, Unknown, Known(""), Known("xx")}
                  \cup {Known(r) : r \in {"stg", "eu", "us", "au", "ca", "uk"}},
     base_url : {Null, Unknown, Known(""), Known("https://custom.example")},
     client_id : {Null, Unknown, Known(""), Known("id")},
     secret : {Null, Unknown, Known("secret")}]
Envs ==
    [region : {"", "uk", "xx"},
     base_url : {"", "https://env.example"},
     client_id : {"", "env-id"},
     secret : {"", "env-secret"}]

\* types.String.ValueString: the string of a known value, "" of a null or unknown one.
ValueString(v) ==
    IF v.state = "known" THEN v.value ELSE ""

Override_EnvWins(fromEnv, v) ==
    IF fromEnv # "" THEN fromEnv ELSE ValueString(v)

\* The default from the environment, overridden by the attribute unless it is null.
Override(fromEnv, v) ==
    IF v.state # "null" THEN ValueString(v) ELSE fromEnv

ResolveBaseURL_RegionFirst(baseURL, region) ==
    LET r == IF region = "" THEN "eu" ELSE region IN
    IF r \notin DOMAIN regionURLs
    THEN [ok |-> FALSE, lookup |-> TRUE, baseURL |-> ""]
    ELSE [ok |-> TRUE, lookup |-> TRUE,
          baseURL |-> IF baseURL = "" THEN regionURLs[r] ELSE baseURL]

\* "Resolve base URL": an empty base URL is taken from regionURLs for the region
\* ("eu" when empty), which fails for a region that is not in the map; a non-empty
\* one is kept and the region is not looked at.
ResolveBaseURL(baseURL, region) ==
    IF baseURL = ""
    THEN LET r == IF region = "" THEN "eu" ELSE region IN
         IF r \notin DOMAIN regionURLs
         THEN [ok |-> FALSE, lookup |-> TRUE, baseURL |-> ""]
         ELSE [ok |-> TRUE, lookup |-> TRUE, baseURL |-> regionURLs[r]]
    ELSE [ok |-> TRUE, lookup |-> FALSE, baseURL |-> baseURL]

\* The errors for unknown credentials, and for missing ones.
UnknownErrors(c) ==
    (IF c.client_id.state = "unknown" THEN {"Unknown Frontegg Client ID"} ELSE {})
        \cup (IF c.secret.state = "unknown" THEN {"Unknown Frontegg Secret"} ELSE {})

MissingErrors_SecretOptional(clientID, secret) ==
    IF clientID = "" THEN {"Missing Frontegg Client ID"} ELSE {}

\* The errors for credentials that resolve to the empty string.
MissingErrors(clientID, secret) ==
    (IF clientID = "" THEN {"Missing Frontegg Client ID"} ELSE {})
        \cup (IF secret = "" THEN {"Missing Frontegg Secret"} ELSE {})

\* FronteggProvider.Configure. `getOK`: req.Config.Get reads the block without an
\* error; `a`, `e`: how the Authenticate of the new client goes.
Configure ==
    /\ ~configured
    /\ configured' = TRUE
    /\ \E getOK \in BOOLEAN, a \in {"ok"} \cup AuthFailures, e \in ExpiresInValues :
          LET region == Override(env.region, config.region)
              baseURL == Override(env.base_url, config.base_url)
              clientID == Override(env.client_id, config.client_id)
              secret == Override(env.secret, config.secret)
              res == ResolveBaseURL(baseURL, region)
              c == [created |-> TRUE, baseURL |-> res.baseURL,
                    clientID |-> clientID, secret |-> secret]
          IN
          IF ~getOK
          THEN /\ Diagnostics' = {"Config.Get"}
               /\ UNCHANGED <<client, ResourceData, DataSourceData, regionLookup,
                              authRequests, authOutcome, clientVars, nextToken>>
          ELSE IF UnknownErrors(config) # {}
          THEN /\ Diagnostics' = UnknownErrors(config)
               /\ UNCHANGED <<client, ResourceData, DataSourceData, regionLookup,
                              authRequests, authOutcome, clientVars, nextToken>>
          ELSE IF ~res.ok
          THEN /\ Diagnostics' = {"Invalid Frontegg Region"}
               /\ regionLookup' = res.lookup
               /\ UNCHANGED <<client, ResourceData, DataSourceData,
                              authRequests, authOutcome, clientVars, nextToken>>
          ELSE IF MissingErrors(clientID, secret) # {}
          THEN /\ Diagnostics' = MissingErrors(clientID, secret)
               /\ regionLookup' = res.lookup
               /\ UNCHANGED <<client, ResourceData, DataSourceData,
                              authRequests, authOutcome, clientVars, nextToken>>
          ELSE /\ regionLookup' = res.lookup
               /\ client' = c
               /\ authRequests' = authRequests + 1
               /\ authOutcome' = a
               /\ IF a = "ok"
                  THEN /\ accessToken' = nextToken
                       /\ tokenExpiry' = ExpiryFor(now, e)
                       /\ nextToken' = nextToken + 1
                       /\ DataSourceData' = c
                       /\ ResourceData' = c
                       /\ Diagnostics' = {}
                  ELSE /\ Diagnostics' = {"Unable to Authenticate with Frontegg API"}
                       /\ UNCHANGED <<ResourceData, DataSourceData, clientVars, nextToken>>
    /\ UNCHANGED <<now, config, env, outsideCfg>>

\* Terraform calls Configure on any provider block in any environment.
InitConfigure ==
    /\ InitClient
    /\ InitOp
    /\ InitCfg
    /\ InitImp
    /\ InitIs
    /\ InitH
    /\ InitLater
    /\ importId = <<>>
    /\ apps = <<>>
    /\ config \in Configs
    /\ env \in Envs

NextCfg ==
    Configure

SpecCfg == InitConfigure /\ [][NextCfg]_vars

\* ------------------------------------------------------------- SpecImport

\* hex.EncodeToString(sha256.Sum256(content)): one digest per content.
Sha256Hex(content) ==
    <<"sha256", content>>

\* Create and Update: the source type for the schema type, "" for the default case.
SourceTypeOf(schemaType) ==
    CASE schemaType = "openapi" -> "REST"
      [] schemaType = "graphql" -> "GRAPHQL"
      [] OTHER -> ""

\* importSchema: whether the answer to the multipart POST yields the tools.
ImportSchema_OK(r) ==
    r.kind = "resp" /\ r.status = StatusOK /\ r.decodable

\* UpsertTools: whether the answer to the POST yields the tools.
UpsertTools_OK(r) ==
    r.kind = "resp" /\ r.status = StatusOK /\ r.decodable

\* Create: data.ToolsCount = types.Int64Value(-1)
ToolsCountAfterCreate(n) ==
    0 - 1

\* Create: the state it sets after ImportAndUpsertSchema returned nil for a schema
\* with n tools.
CreatedState(content, n) ==
    [present |-> TRUE, id |-> "app:src",
     schema_file |-> tiConfig.schema_file, schema_type |-> tiConfig.schema_type,
     schema_hash |-> Sha256Hex(content),
     tools_count |-> ToolsCountAfterCreate(n), tools_count_unknown |-> FALSE]

\* Update: the state it sets, the plan with schema_hash replaced. The plan holds the
\* configuration, the id of the state, and tools_count as an unknown computed value.
UpdatedState(content) ==
    [present |-> TRUE, id |-> tiState.id,
     schema_file |-> tiConfig.schema_file, schema_type |-> tiConfig.schema_type,
     schema_hash |-> Sha256Hex(content),
     tools_count |-> 0, tools_count_unknown |-> TRUE]

\* The state the handler that runs sets on success.
StateAfter(handler, content, n) ==
    IF handler = "Create" THEN CreatedState(content, n) ELSE UpdatedState(content)

\* The handler returns: the cycle is over.
EndCycle ==
    /\ tiStep' = "edit"
    /\ tiPc' = "idle"
    /\ tiPending' = NoPending

\* Create and Update up to the end of importSchema: os.ReadFile, the hash, the
\* source type, then ImportAndUpsertSchema's import request. With no tools in the
\* answer ImportAndUpsertSchema returns nil and the handler sets the state; with
\* tools it goes on to UpsertTools.
ImportStep(handler) ==
    /\ tiPc = "idle"
    /\ tiStep = "refreshed"
    /\ tiHandler' = handler
    /\ LET content == file[tiConfig.schema_file] IN
       IF content = NoFile
       THEN /\ tiDiag' = {"File Error"}
            /\ EndCycle
            /\ UNCHANGED <<tiState, importCalls, lastImport, hashSetBy, clientVars, nextToken>>
       ELSE IF SourceTypeOf(tiConfig.schema_type) = ""
       THEN /\ tiDiag' = {"Invalid Schema Type"}
            /\ EndCycle
            /\ UNCHANGED <<tiState, importCalls, lastImport, hashSetBy, clientVars, nextToken>>
       ELSE \E a \in TokenOutcomes, e \in ExpiresInValues, r \in ApiResponses, n \in 0..MaxTools :
               /\ AcquireToken(a, e)
               /\ importCalls' = Append(importCalls, content)
               /\ IF ~TokenAcquired(a) \/ ~ImportSchema_OK(r)
                  THEN /\ tiDiag' = {"Client Error"}
                       /\ EndCycle
                       /\ UNCHANGED <<tiState, lastImport, hashSetBy>>
                  ELSE IF n = 0
                  THEN /\ tiDiag' = {}
                       /\ tiState' = StateAfter(handler, content, n)
                       /\ lastImport' = [content |-> content, tools |-> n]
                       /\ hashSetBy' = handler
                       /\ EndCycle
                  ELSE /\ tiPc' = "upsert"
                       /\ tiPending' = [content |-> content, tools |-> n]
                       /\ UNCHANGED <<tiState, tiStep, tiDiag, lastImport, hashSetBy>>
    /\ UNCHANGED <<now, file, tiConfig, cycles, outsideImp>>

\* The plan of Terraform for the resource: create what is not in the state, update
\* what differs from the configuration, nothing otherwise. (application_id,
\* source_id and schema_type do not change in this model; schema_hash and
\* tools_count are computed and have no plan modifier, so they plan no change.)
PlannedAction ==
    IF ~tiState.present THEN "Create"
    ELSE IF tiState.schema_file # tiConfig.schema_file THEN "Update"
    ELSE "none"

\* ToolsImportResource.Create, up to the end of the import request.
ToolsImport_Create ==
    /\ PlannedAction = "Create"
    /\ ImportStep("Create")

\* ToolsImportResource.Update, up to the end of the import request.
ToolsImport_Update ==
    /\ PlannedAction = "Update"
    /\ ImportStep("Update")

\* Create and Update from UpsertTools on: the upsert request, then the state.
ToolsImport_Upsert ==
    /\ tiPc = "upsert"
    /\ \E a \in TokenOutcomes, e \in ExpiresInValues, r \in ApiResponses :
          /\ AcquireToken(a, e)
          /\ IF TokenAcquired(a) /\ UpsertTools_OK(r)
             THEN /\ tiDiag' = {}
                  /\ tiState' = StateAfter(tiHandler, tiPending.content, tiPending.tools)
                  /\ lastImport' = tiPending
                  /\ hashSetBy' = tiHandler
             ELSE /\ tiDiag' = {"Client Error"}
                  /\ UNCHANGED <<tiState, lastImport, hashSetBy>>
    /\ EndCycle
    /\ UNCHANGED <<now, file, tiConfig, tiHandler, importCalls, cycles, outsideImp>>

\* The apply of a plan with no change: no handler is called.
ToolsImport_NoChange ==
    /\ tiPc = "idle"
    /\ tiStep = "refreshed"
    /\ PlannedAction = "none"
    /\ tiStep' = "edit"
    /\ UNCHANGED <<now, clientVars, nextToken, file, tiConfig, tiState, tiPc, tiHandler,
                   tiPending, tiDiag, importCalls, lastImport, hashSetBy, cycles, outsideImp>>

\* The refresh that starts a cycle: ToolsImportResource.Read for a resource of the
\* state. A file that can be read gives schema_hash its digest; otherwise the state
\* is set as it was.
ToolsImport_Read ==
    /\ tiPc = "idle"
    /\ tiStep = "edit"
    /\ cycles < MaxCycles
    /\ cycles' = cycles + 1
    /\ tiStep' = "refreshed"
    /\ IF tiState.present /\ file[tiState.schema_file] # NoFile
       THEN /\ tiState' = [tiState EXCEPT !.schema_hash = Sha256Hex(file[tiState.schema_file])]
            /\ hashSetBy' = "Read"
            /\ tiHandler' = "Read"
       ELSE UNCHANGED <<tiState, hashSetBy, tiHandler>>
    /\ UNCHANGED <<now, clientVars, nextToken, file, tiConfig, tiPc, tiPending, tiDiag,
                   importCalls, lastImport, outsideImp>>

\* Between two cycles somebody writes or removes a schema file.
EditFile ==
    /\ tiPc = "idle"
    /\ tiStep = "edit"
    /\ \E p \in Paths, c \in Contents \cup {NoFile} :
          /\ file[p] # c
          /\ file' = [file EXCEPT ![p] = c]
    /\ UNCHANGED <<now, clientVars, nextToken, tiConfig, tiState, tiStep, tiPc, tiHandler,
                   tiPending, tiDiag, importCalls, lastImport, hashSetBy, cycles, outsideImp>>

\* Between two cycles somebody points schema_file to the other path.
EditConfig ==
    /\ tiPc = "idle"
    /\ tiStep = "edit"
    /\ \E p \in Paths :
          /\ tiConfig.schema_file # p
          /\ tiConfig' = [tiConfig EXCEPT !.schema_file = p]
    /\ UNCHANGED <<now, clientVars, nextToken, file, tiState, tiStep, tiPc, tiHandler,
                   tiPending, tiDiag, importCalls, lastImport, hashSetBy, cycles, outsideImp>>

\* The resource block names either schema type, or one that is neither.
InitImport ==
    /\ InitClient
    /\ InitOp
    /\ InitCfg
    /\ InitIs
    /\ InitH
    /\ InitLater
    /\ importId = <<>>
    /\ apps = <<>>
    /\ config = NoConfig
    /\ env = NoEnv
    /\ file = [p \in Paths |-> NoFile]
    /\ tiConfig \in [schema_file : {"a.json"}, schema_type : {"openapi", "graphql", "soap"}]
    /\ tiState = NoImportState
    /\ tiStep = "edit"
    /\ tiPc = "idle"
    /\ tiHandler = "none"
    /\ tiPending = NoPending
    /\ tiDiag = {}
    /\ importCalls = <<>>
    /\ lastImport = NoImport
    /\ hashSetBy = "none"
    /\ cycles = 0

NextImport ==
    \/ Tick
    \/ EditFile
    \/ EditConfig
    \/ ToolsImport_Read
    \/ ToolsImport_Create
    \/ ToolsImport_Update
    \/ ToolsImport_Upsert
    \/ ToolsImport_NoChange

SpecImport == InitImport /\ [][NextImport]_vars

\* -------------------------------------------------------------- SpecParse

\* The characters of the import IDs tried, and the IDs.
IdChars == {"a", "b", ":"}
ImportIds == UNION {[1..n -> IdChars] : n \in 0..MaxIdLen}

\* The position of the first ":" of s, 0 if there is none.
IndexColon(s) ==
    IF \E i \in 1..Len(s) : s[i] = ":"
    THEN CHOOSE i \in 1..Len(s) : s[i] = ":" /\ \A j \in 1..(i - 1) : s[j] # ":"
    ELSE 0

RECURSIVE Split(_)
Split_AtFirstOnly(s) ==
    IF IndexColon(s) = 0 THEN <<s>>
    ELSE <<SubSeq(s, 1, IndexColon(s) - 1), SubSeq(s, IndexColon(s) + 1, Len(s))>>

\* strings.Split(s, ":"): the substrings between the colons, one more than colons.
Split(s) ==
    IF IndexColon(s) = 0 THEN <<s>>
    ELSE <<SubSeq(s, 1, IndexColon(s) - 1)>> \o Split(SubSeq(s, IndexColon(s) + 1, Len(s)))

\* SourceResource.ImportState.
ImportState ==
    /\ ~importDone
    /\ importDone' = TRUE
    /\ LET parts == Split(importId) IN
       IF Len(parts) # 2
       THEN /\ importDiag' = {"Invalid Import ID"}
            /\ UNCHANGED importAttrs
       ELSE /\ importAttrs' = [application_id |-> SetTo(parts[1]), id |-> SetTo(parts[2])]
            /\ UNCHANGED importDiag
    /\ UNCHANGED <<importId, outsideParse>>

\* terraform import agentlink_source.<name> <ID>, for any ID.
InitParse ==
    /\ InitClient
    /\ InitOp
    /\ InitCfg
    /\ InitImp
    /\ InitIs
    /\ InitH
    /\ InitLater
    /\ apps = <<>>
    /\ config = NoConfig
    /\ env = NoEnv
    /\ importId \in ImportIds

NextParse ==
    ImportState

SpecParse == InitParse /\ [][NextParse]_vars

\* ------------------------------------------------------------- SpecPolicy

\* The handlers and the client function each of them calls.
CreateHandlers ==
    {"RbacPolicyResource.Create", "ConditionalPolicyResource.Create",
     "MaskingPolicyResource.Create"}
UpdateHandlers ==
    {"RbacPolicyResource.Update", "ConditionalPolicyResource.Update",
     "MaskingPolicyResource.Update"}
ClientFunction(handler) ==
    CASE handler = "RbacPolicyResource.Create" -> "CreateRbacPolicy"
      [] handler = "RbacPolicyResource.Update" -> "UpdateRbacPolicy"
      [] handler = "ConditionalPolicyResource.Create" -> "CreateConditionalPolicy"
      [] handler = "ConditionalPolicyResource.Update" -> "UpdateConditionalPolicy"
      [] handler = "MaskingPolicyResource.Create" -> "CreateMaskingPolicy"
      [] handler = "MaskingPolicyResource.Update" -> "UpdateMaskingPolicy"

\* The getter the client function ends in.
ReadBackGetter(fn) ==
    CASE fn \in {"CreateRbacPolicy", "UpdateRbacPolicy"} -> "GetRbacPolicy"
      [] fn \in {"CreateConditionalPolicy", "UpdateConditionalPolicy"} -> "GetConditionalPolicy"
      [] fn \in {"CreateMaskingPolicy", "UpdateMaskingPolicy"} -> "GetMaskingPolicy"

\* The plans tried: no tool or one, and for the conditional policy a targeting that
\* is null, unknown, or set with conditions and a result.
KnownTargetings ==
    [state : {"known"}, conditions : {<<>>, <<"c1">>}, result : {"ALLOW", "DENY"}]
Plans(handler) ==
    [toolIDs : {<<>>, <<1>>},
     targeting : IF handler \in {"ConditionalPolicyResource.Create",
                                 "ConditionalPolicyResource.Update"}
                 THEN {NullTargeting, UnknownTargeting} \cup KnownTargetings
                 ELSE {NullTargeting}]

\* ConditionalPolicyResource.buildTargetingFromState: nil for a null or unknown
\* object, and nil for any other.
buildTargetingFromState(targeting) ==
    IF targeting.state \in {"null", "unknown"}
    THEN NilTargeting
    ELSE NilTargeting

\* RbacPolicyResource.Create: len(toolIDs) == 0 is a "Validation Error"; no other
\* handler looks at the length.
ValidationErrors(handler, toolIDs) ==
    IF handler = "RbacPolicyResource.Create" /\ Len(toolIDs) = 0
    THEN {"Validation Error"}
    ELSE {}

\* The request struct the handler builds from the plan.
BuildRequest(handler, plan) ==
    [toolIDs |-> plan.toolIDs,
     targeting |-> IF handler \in {"ConditionalPolicyResource.Create",
                                   "ConditionalPolicyResource.Update"}
                   THEN buildTargetingFromState(plan.targeting)
                   ELSE NilTargeting]

\* The create functions POST and need 201 or 200 and a body with the id; the update
\* functions PATCH and need 200.
WriteMethod(fn) ==
    IF fn \in {"CreateRbacPolicy", "CreateConditionalPolicy", "CreateMaskingPolicy"}
    THEN "POST" ELSE "PATCH"
Write_Result(fn, r) ==
    IF r.kind = "error" THEN "request"
    ELSE IF WriteMethod(fn) = "POST"
    THEN (IF r.status \notin {StatusCreated, StatusOK} THEN "status"
          ELSE IF ~r.decodable THEN "decode" ELSE "")
    ELSE (IF r.status # StatusOK THEN "status" ELSE "")

\* The handler after its client function returned (obj, err): an error is reported;
\* a create handler reads policy.ID, which panics on a nil policy; an update handler
\* drops the policy; then the state is set.
HandlerReturn(res) ==
    IF res.err # ""
    THEN /\ hDiag' = {"Client Error"}
         /\ UNCHANGED <<hStored, hPanic>>
    ELSE IF hName \in CreateHandlers /\ res.obj = Nil
    THEN /\ hPanic' = TRUE
         /\ UNCHANGED <<hStored, hDiag>>
    ELSE /\ hStored' = TRUE
         /\ UNCHANGED <<hPanic, hDiag>>

\* Terraform calls a Create or Update handler of a policy resource: Plan.Get, the
\* conversions, the validation and the request struct, up to the call of the client.
Policy_Start ==
    /\ opc \in {"idle", "done"}
    /\ opsStarted < MaxOps
    /\ opsStarted' = opsStarted + 1
    /\ \E handler \in CreateHandlers \cup UpdateHandlers, id \in ObjectIds :
          \E plan \in Plans(handler) :
             /\ hName' = handler
             /\ hPlan' = plan
             /\ opName' = ClientFunction(handler)
             /\ opArg' = id
             /\ hDiag' = ValidationErrors(handler, plan.toolIDs)
             /\ IF ValidationErrors(handler, plan.toolIDs) # {}
                THEN /\ opc' = "done"
                     /\ hReq' = NoRequest
                ELSE /\ opc' = "write"
                     /\ hReq' = BuildRequest(handler, plan)
    /\ log' = <<>>
    /\ result' = NoResult
    /\ hStored' = FALSE
    /\ hPanic' = FALSE
    /\ UNCHANGED <<now, clientVars, nextToken, outsidePolicy>>

\* The client function's write request; on success it goes on to the read-back.
Policy_Write ==
    /\ opc = "write"
    /\ \E a \in TokenOutcomes, e \in ExpiresInValues, r \in ApiResponses :
          /\ AcquireToken(a, e)
          /\ WriteMethod(opName) = "PATCH" => ~r.decodable
          /\ IF ~TokenAcquired(a)
             THEN /\ result' = TokenError
                  /\ opc' = "done"
                  /\ HandlerReturn(TokenError)
                  /\ UNCHANGED log
             ELSE /\ log' = Append(log, Sent(WriteMethod(opName), GetterPath(ReadBackGetter(opName)),
                                             IF WriteMethod(opName) = "POST" THEN Nil ELSE opArg, r))
                  /\ IF Write_Result(opName, r) = ""
                     THEN /\ opc' = "readback"
                          /\ UNCHANGED <<result, hStored, hPanic, hDiag>>
                     ELSE /\ opc' = "done"
                          /\ result' = [obj |-> Nil, err |-> Write_Result(opName, r)]
                          /\ HandlerReturn(result')
    /\ UNCHANGED <<now, opName, opArg, opsStarted, hName, hPlan, hReq, outsidePolicy>>

\* The client function's read-back GET: what the getter returns is what the client
\* function returns to the handler.
Policy_ReadBack ==
    /\ opc = "readback"
    /\ \E a \in TokenOutcomes, e \in ExpiresInValues, r \in ApiResponses :
          /\ AcquireToken(a, e)
          /\ IF TokenAcquired(a)
             THEN /\ log' = Append(log, Sent("GET", GetterPath(ReadBackGetter(opName)), opArg, r))
                  /\ result' = GetterResult(ReadBackGetter(opName), r, opArg)
             ELSE /\ result' = TokenError
                  /\ UNCHANGED log
    /\ HandlerReturn(result')
    /\ opc' = "done"
    /\ UNCHANGED <<now, opName, opArg, opsStarted, hName, hPlan, hReq, outsidePolicy>>

InitPolicy ==
    /\ InitClient
    /\ InitOp
    /\ InitCfg
    /\ InitImp
    /\ InitIs
    /\ InitH
    /\ InitLater
    /\ importId = <<>>
    /\ apps = <<>>
    /\ config = NoConfig
    /\ env = NoEnv

NextPolicy ==
    \/ Tick
    \/ Policy_Start
    \/ Policy_Write
    \/ Policy_ReadBack

SpecPolicy == InitPolicy /\ [][NextPolicy]_vars

\* --------------------------------------------------------------- SpecRace
\* Two goroutines call FindOrCreateApplication, or FindOrCreateSource, on one client.

FindOrCreateFunctions == {"FindOrCreateApplication", "FindOrCreateSource"}

\* GetApplications and GetSources need 200 and a decodable body; CreateApplication
\* needs 201, CreateSource 200 or 201, and a decodable body.
List_OK(r) ==
    r.kind = "resp" /\ r.status = StatusOK /\ r.decodable
CreateStatuses(fn) ==
    IF fn = "FindOrCreateApplication" THEN {StatusCreated} ELSE {StatusOK, StatusCreated}
Create_OK(fn, r) ==
    r.kind = "resp" /\ r.status \in CreateStatuses(fn) /\ r.decodable
RequestError(r, statuses) ==
    IF r.kind = "error" THEN "request"
    ELSE IF r.status \notin statuses THEN "status"
    ELSE "decode"

\* After the object is found or created: FindOrCreateApplication stores its ID and
\* name in the client, FindOrCreateSource returns it.
AfterObject(fn) ==
    IF fn = "FindOrCreateApplication" THEN "set_id" ELSE "done"

\* A goroutine calls the function with a name.
FindOrCreate_Call(p) ==
    /\ rcPc[p] \in {"idle", "done"}
    /\ rcCalls < MaxCalls
    /\ rcCalls' = rcCalls + 1
    /\ \E n \in Names : rcName' = [rcName EXCEPT ![p] = n]
    /\ rcPc' = [rcPc EXCEPT ![p] = "find"]
    /\ rcNew' = [rcNew EXCEPT ![p] = Nil]
    /\ rcRet' = [rcRet EXCEPT ![p] = NoResult]
    /\ rcOverlap' = (rcOverlap \/ \E q \in Callers \ {p} : rcPc[q] \notin {"idle", "done"})
    /\ UNCHANGED <<rcFn, rcObjs, rcCreates, appVars, outsideRace>>

\* A variant of FindOrCreate_Find that goes on to create whatever the listing holds.
FindOrCreate_Find_AlwaysCreates(p) ==
    /\ rcPc[p] = "find"
    /\ rcPc' = [rcPc EXCEPT ![p] = "create"]
    /\ UNCHANGED <<rcFn, rcObjs, rcName, rcNew, rcRet, rcCalls, rcCreates, rcOverlap,
                   appVars, outsideRace>>

\* FindApplicationByName / FindSourceByName: the listing request (sent unless no
\* token can be had) and the search of the answer for the name.
FindOrCreate_Find(p) ==
    /\ rcPc[p] = "find"
    /\ \E tokenOK \in BOOLEAN, r \in ApiResponses :
          IF ~tokenOK
          THEN /\ rcRet' = [rcRet EXCEPT ![p] = TokenError]
               /\ rcPc' = [rcPc EXCEPT ![p] = "done"]
               /\ UNCHANGED rcNew
          ELSE IF ~List_OK(r)
          THEN /\ rcRet' = [rcRet EXCEPT ![p] =
                              [obj |-> Nil, err |-> RequestError(r, {StatusOK})]]
               /\ rcPc' = [rcPc EXCEPT ![p] = "done"]
               /\ UNCHANGED rcNew
          ELSE LET i == FindApplicationByName(rcObjs, rcName[p]) IN
               IF i # 0
               THEN /\ rcNew' = [rcNew EXCEPT ![p] = rcObjs[i].id]
                    /\ rcRet' = [rcRet EXCEPT ![p] = [obj |-> rcObjs[i].id, err |-> ""]]
                    /\ rcPc' = [rcPc EXCEPT ![p] = AfterObject(rcFn)]
               ELSE /\ rcPc' = [rcPc EXCEPT ![p] = "create"]
                    /\ UNCHANGED <<rcNew, rcRet>>
    /\ UNCHANGED <<rcFn, rcObjs, rcName, rcCalls, rcCreates, rcOverlap, appVars, outsideRace>>

\* CreateApplication / CreateSource: the create request. The server creates the object
\* or not (it has created it when it answers with a success status).
FindOrCreate_Create(p) ==
    /\ rcPc[p] = "create"
    /\ \E tokenOK \in BOOLEAN, r \in ApiResponses, created \in BOOLEAN :
          IF ~tokenOK
          THEN /\ rcRet' = [rcRet EXCEPT ![p] = TokenError]
               /\ rcPc' = [rcPc EXCEPT ![p] = "done"]
               /\ UNCHANGED <<rcNew, rcObjs, rcCreates>>
          ELSE /\ created => Len(rcObjs) < MaxApps
               /\ (r.kind = "resp" /\ r.status \in CreateStatuses(rcFn)) => created
               /\ rcCreates' = [rcCreates EXCEPT ![rcName[p]] = @ + 1]
               /\ rcObjs' = IF created
                            THEN Append(rcObjs, [id |-> Len(rcObjs) + 1, name |-> rcName[p]])
                            ELSE rcObjs
               /\ IF Create_OK(rcFn, r)
                  THEN /\ rcNew' = [rcNew EXCEPT ![p] = Len(rcObjs) + 1]
                       /\ rcRet' = [rcRet EXCEPT ![p] = [obj |-> Len(rcObjs) + 1, err |-> ""]]
                       /\ rcPc' = [rcPc EXCEPT ![p] = AfterObject(rcFn)]
                  ELSE /\ rcRet' = [rcRet EXCEPT ![p] =
                                      [obj |-> Nil, err |-> RequestError(r, CreateStatuses(rcFn))]]
                       /\ rcPc' = [rcPc EXCEPT ![p] = "done"]
                       /\ UNCHANGED rcNew
    /\ UNCHANGED <<rcFn, rcName, rcCalls, rcOverlap, appVars, outsideRace>>

\* FindOrCreateApplication, c.ApplicationID = app.ID (no lock is taken)
FindOrCreate_SetID(p) ==
    /\ rcPc[p] = "set_id"
    /\ ApplicationID' = rcNew[p]
    /\ rcPc' = [rcPc EXCEPT ![p] = "set_name"]
    /\ UNCHANGED <<rcFn, rcObjs, rcName, rcNew, rcRet, rcCalls, rcCreates, rcOverlap,
                   ApplicationName, outsideRace>>

\* FindOrCreateApplication, c.ApplicationName = app.Name, and the return
FindOrCreate_SetName(p) ==
    /\ rcPc[p] = "set_name"
    /\ ApplicationName' = rcName[p]
    /\ rcPc' = [rcPc EXCEPT ![p] = "done"]
    /\ UNCHANGED <<rcFn, rcObjs, rcName, rcNew, rcRet, rcCalls, rcCreates, rcOverlap,
                   ApplicationID, outsideRace>>

InitRace ==
    /\ InitClient
    /\ InitOp
    /\ InitCfg
    /\ InitImp
    /\ InitIs
    /\ InitH
    /\ InitIu
    /\ InitRs
    /\ InitPv
    /\ rcFn \in FindOrCreateFunctions
    /\ rcObjs = <<>>
    /\ rcPc = [p \in Callers |-> "idle"]
    /\ rcName = [p \in Callers |-> "app"]
    /\ rcNew = [p \in Callers |-> Nil]
    /\ rcRet = [p \in Callers |-> NoResult]
    /\ rcCalls = 0
    /\ rcCreates = [n \in Names |-> 0]
    /\ rcOverlap = FALSE
    /\ importId = <<>>
    /\ apps = <<>>
    /\ config = NoConfig
    /\ env = NoEnv

NextRace ==
    \E p \in Callers :
        \/ FindOrCreate_Call(p)
        \/ FindOrCreate_Find(p)
        \/ FindOrCreate_Create(p)
        \/ FindOrCreate_SetID(p)
        \/ FindOrCreate_SetName(p)

SpecRace == InitRace /\ [][NextRace]_vars

\* ------------------------------------------------------------- SpecUpsert
\* One goroutine calls ImportAndUpsertSchema, one call at a time.

\* The source types a caller may pass, the source IDs, and the tools an import may
\* answer with: up to MaxTools tools, each with the sourceId the server gave it.
SourceTypes == {"REST", "GRAPHQL", "SOAP", ""}
SourceIDs == {"s1", "s2"}
ServerSourceIDs == {"", "s2"}
ImportedTools ==
    UNION {[1..n -> [name : {"t"}, sourceID : ServerSourceIDs]] : n \in 0..MaxTools}

\* ImportOpenAPISchema and ImportGraphQLSchema: the endpoint for the source type.
ImportEndpoint(sourceType) ==
    IF sourceType = "REST" THEN "openapi/import" ELSE "graphql/import"

\* A variant of SetSourceID that leaves the tools as the import returned them.
SetSourceID_Skipped(ts, sourceID) ==
    ts

\* for i := range tools { tools[i].SourceID = sourceID }
SetSourceID(ts, sourceID) ==
    [i \in 1..Len(ts) |-> [ts[i] EXCEPT !.sourceID = sourceID]]

\* ImportAndUpsertSchema is called: the switch on the source type returns an error
\* in the default case, before any request.
ImportAndUpsertSchema_Call ==
    /\ iuPc \in {"idle", "done"}
    /\ iuCalls < MaxOps
    /\ iuCalls' = iuCalls + 1
    /\ \E t \in SourceTypes, s \in SourceIDs :
          /\ iuArgs' = [sourceType |-> t, sourceID |-> s]
          /\ IF t \in {"REST", "GRAPHQL"}
             THEN iuPc' = "import" /\ iuErr' = ""
             ELSE iuPc' = "done" /\ iuErr' = "not supported"
    /\ iuTools' = <<>>
    /\ iuLog' = <<>>
    /\ UNCHANGED <<tokenVars, outsideUpsert>>

\* importSchema: the multipart POST (sent unless no token can be had), then the
\* check of the error and of len(tools), and the loop that sets the source ID.
ImportAndUpsertSchema_Import ==
    /\ iuPc = "import"
    /\ \E a \in TokenOutcomes, e \in ExpiresInValues, r \in ApiResponses, ts \in ImportedTools :
          /\ AcquireToken(a, e)
          /\ IF ~TokenAcquired(a)
             THEN /\ iuErr' = "failed to import schema"
                  /\ iuPc' = "done"
                  /\ UNCHANGED <<iuLog, iuTools>>
             ELSE /\ iuLog' = Append(iuLog, [path |-> ImportEndpoint(iuArgs.sourceType),
                                             tools |-> <<>>, ok |-> ImportSchema_OK(r)])
                  /\ IF ~ImportSchema_OK(r)
                     THEN /\ iuErr' = "failed to import schema"
                          /\ iuPc' = "done"
                          /\ UNCHANGED iuTools
                     ELSE IF Len(ts) = 0
                     THEN /\ iuTools' = ts
                          /\ iuPc' = "done"
                          /\ UNCHANGED iuErr
                     ELSE /\ iuTools' = SetSourceID(ts, iuArgs.sourceID)
                          /\ iuPc' = "upsert"
                          /\ UNCHANGED iuErr
    /\ UNCHANGED <<now, iuArgs, iuCalls, outsideUpsert>>

\* UpsertTools: the POST of the tools (sent unless no token can be had); its answer
\* decides the error returned.
ImportAndUpsertSchema_Upsert ==
    /\ iuPc = "upsert"
    /\ \E a \in TokenOutcomes, e \in ExpiresInValues, r \in ApiResponses :
          /\ AcquireToken(a, e)
          /\ IF ~TokenAcquired(a)
             THEN /\ iuErr' = "failed to upsert tools"
                  /\ UNCHANGED iuLog
             ELSE /\ iuLog' = Append(iuLog, [path |-> "upsert", tools |-> iuTools,
                                             ok |-> UpsertTools_OK(r)])
                  /\ iuErr' = IF UpsertTools_OK(r) THEN "" ELSE "failed to upsert tools"
    /\ iuPc' = "done"
    /\ UNCHANGED <<now, iuArgs, iuTools, iuCalls, outsideUpsert>>

InitUpsert ==
    /\ InitClient
    /\ InitOp
    /\ InitCfg
    /\ InitImp
    /\ InitIs
    /\ InitH
    /\ InitLater
    /\ importId = <<>>
    /\ apps = <<>>
    /\ config = NoConfig
    /\ env = NoEnv

NextUpsert ==
    \/ Tick
    \/ ImportAndUpsertSchema_Call
    \/ ImportAndUpsertSchema_Import
    \/ ImportAndUpsertSchema_Upsert

SpecUpsert == InitUpsert /\ [][NextUpsert]_vars

\* ----------------------------------------------------------- SpecResource
\* Terraform runs the handlers of one resource, one at a time, against a server that
\* stores what it is sent. A handler with its client call is one step; `outcome` is
\* what the client call comes to: no token, a failed request, (nil, nil), an object.

PolicyKinds == {"rbac_policy", "conditional_policy", "masking_policy"}
ReadKinds == PolicyKinds \cup {"application", "mcp_configuration", "source"}
SingletonKinds == {"mcp_configuration", "identity_configuration"}
Outcomes == {"token", "error", "nil", "object"}

\* The plans of a policy: description unset or set, app_ids unset, empty or not,
\* internal_tool_ids empty or not, and for a masking policy the credit_card flag.
PolicyPlans(kind) ==
    [present : {TRUE},
     description : {Null, Known("d")},
     app_ids : {NullList, Known(<<>>), Known(<<"a">>)},
     internal_tool_ids : {Known(<<>>), Known(<<"t">>)},
     credit_card : IF kind = "masking_policy" THEN BOOLEAN ELSE {FALSE}]

\* The request struct of a plan: ValueString() of the description, nil for a null
\* list and the elements otherwise, the flags of extractPolicyConfig.
RequestOf(plan) ==
    [description |-> ValueString(plan.description),
     appIDs |-> plan.app_ids.value,
     toolIDs |-> plan.internal_tool_ids.value,
     creditCard |-> plan.credit_card]

\* json.Marshal of a Create*PolicyRequest: description, appIds and the flags of the
\* policy configuration have omitempty; internalToolIds and policyConfiguration
\* have not.
CreateBody(kind, req) ==
    [has |-> {"internalToolIds"}
                \cup (IF req.description # "" THEN {"description"} ELSE {})
                \cup (IF Len(req.appIDs) > 0 THEN {"appIds"} ELSE {})
                \cup (IF kind = "masking_policy" THEN {"policyConfiguration"} ELSE {})
                \cup (IF req.creditCard THEN {"creditCard"} ELSE {}),
     description |-> req.description, appIDs |-> req.appIDs, toolIDs |-> req.toolIDs,
     creditCard |-> req.creditCard]

\* json.Marshal of an Update*PolicyRequest: every field has omitempty; enabled is a
\* non-nil pointer and policyConfiguration a non-nil pointer of a masking policy.
UpdateBody(kind, req) ==
    [has |-> {"enabled"}
                \cup (IF req.description # "" THEN {"description"} ELSE {})
                \cup (IF Len(req.appIDs) > 0 THEN {"appIds"} ELSE {})
                \cup (IF Len(req.toolIDs) > 0 THEN {"internalToolIds"} ELSE {})
                \cup (IF kind = "masking_policy" THEN {"policyConfiguration"} ELSE {})
                \cup (IF req.creditCard THEN {"creditCard"} ELSE {}),
     description |-> req.description, appIDs |-> req.appIDs, toolIDs |-> req.toolIDs,
     creditCard |-> req.creditCard]

\* The server stores a created object as sent, an absent field as its zero value.
Created(body) ==
    [exists |-> TRUE,
     description |-> IF "description" \in body.has THEN body.description ELSE "",
     appIDs |-> IF "appIds" \in body.has THEN body.appIDs ELSE <<>>,
     toolIDs |-> body.toolIDs,
     creditCard |-> "creditCard" \in body.has]

\* The server applies a PATCH: a field of the body replaces the stored one, an absent
\* field leaves it. `replace` is whether a policyConfiguration object in the body
\* replaces the stored one as a whole or is merged into it.
Patched(remote, body, replace) ==
    [exists |-> TRUE,
     description |-> IF "description" \in body.has THEN body.description
                     ELSE remote.description,
     appIDs |-> IF "appIds" \in body.has THEN body.appIDs ELSE remote.appIDs,
     toolIDs |-> IF "internalToolIds" \in body.has THEN body.toolIDs ELSE remote.toolIDs,
     creditCard |-> IF "creditCard" \in body.has THEN TRUE
                    ELSE IF "policyConfiguration" \in body.has /\ replace THEN FALSE
                    ELSE remote.creditCard]

\* The requests a client call sends up to its outcome: none without a token, the
\* first request when it fails, all of them otherwise.
RequestsOf(methods, outcome) ==
    CASE outcome = "token" -> <<>>
      [] outcome = "error" -> <<methods[1]>>
      [] OTHER -> methods

\* Read of a policy maps the object to the model: description always a string,
\* app_ids null when empty, internal_tool_ids always a list; the policy
\* configuration is not mapped.
MapPolicy(state, remote) ==
    [state EXCEPT !.description = Known(remote.description),
                  !.app_ids = IF Len(remote.appIDs) > 0 THEN Known(remote.appIDs)
                              ELSE NullList,
                  !.internal_tool_ids = Known(remote.toolIDs)]

\* Read of the other resources maps every field as a known value.
MapObject(kind, state, remote) ==
    IF kind \in PolicyKinds THEN MapPolicy(state, remote)
    ELSE [state EXCEPT !.description = Known(remote.description)]

\* What every handler call does around the handler.
Handler(name) ==
    /\ rsSteps < MaxHandlers
    /\ rsSteps' = rsSteps + 1
    /\ rsHandler' = name
    /\ rsPrev' = rsState
    /\ UNCHANGED <<rsKind, outsideResource>>

\* Create of a policy resource: the plan, the validation of RbacPolicyResource, the
\* request, Create*Policy (POST, then the read-back GET), then policy.ID and the state.
Resource_Create ==
    /\ rsKind \in PolicyKinds
    /\ ~rsState.present
    /\ ~rsRemote.exists
    /\ Handler("Create")
    /\ \E plan \in PolicyPlans(rsKind), outcome \in Outcomes \ {"nil"} :
          IF ValidationErrors(IF rsKind = "rbac_policy" THEN "RbacPolicyResource.Create"
                              ELSE "other", plan.internal_tool_ids.value) # {}
          THEN /\ rsDiag' = {"Validation Error"}
               /\ rsLog' = <<>>
               /\ rsOutcome' = "none"
               /\ UNCHANGED <<rsState, rsRemote, rsBody>>
          ELSE /\ rsLog' = RequestsOf(<<"POST", "GET">>, outcome)
               /\ rsOutcome' = outcome
               /\ rsBody' = IF outcome = "token" THEN rsBody
                            ELSE CreateBody(rsKind, RequestOf(plan))
               /\ rsRemote' = IF outcome = "object"
                              THEN Created(CreateBody(rsKind, RequestOf(plan)))
                              ELSE rsRemote
               /\ rsDiag' = IF outcome = "object" THEN {} ELSE {"Client Error"}
               /\ rsState' = IF outcome = "object" THEN plan ELSE rsState

\* A variant of ReadState that keeps in the state a resource whose object is gone.
ReadState_KeepsVanished(kind, state, remote, outcome) ==
    IF outcome = "object" THEN MapObject(kind, state, remote) ELSE state

\* The state Read leaves for each outcome of the getter: untouched after an error,
\* removed after (nil, nil), the mapped object otherwise.
ReadState(kind, state, remote, outcome) ==
    CASE outcome \in {"token", "error"} -> state
      [] outcome = "nil" -> NoResource
      [] OTHER -> MapObject(kind, state, remote)

\* Read: the getter, then "Client Error", RemoveResource, or the mapping and the state.
\* The getter returns (nil, nil) for an object that is gone.
Resource_Read ==
    /\ rsKind \in ReadKinds
    /\ rsState.present
    /\ Handler("Read")
    /\ \E outcome \in Outcomes :
          /\ outcome = "nil" => ~rsRemote.exists
          /\ outcome = "object" => rsRemote.exists
          /\ rsLog' = RequestsOf(<<"GET">>, outcome)
          /\ rsOutcome' = outcome
          /\ rsDiag' = IF outcome \in {"token", "error"} THEN {"Client Error"} ELSE {}
          /\ rsState' = ReadState(rsKind, rsState, rsRemote, outcome)
    /\ UNCHANGED <<rsRemote, rsBody>>

\* Update of a policy resource: the plan, the request, Update*Policy (PATCH, then the
\* read-back GET, whose policy is dropped), then the plan as the state.
Resource_Update ==
    /\ rsKind \in PolicyKinds
    /\ rsState.present
    /\ rsRemote.exists
    /\ Handler("Update")
    /\ \E plan \in PolicyPlans(rsKind), outcome \in Outcomes \ {"nil"},
          replace \in BOOLEAN :
          /\ plan # rsState
          /\ rsLog' = RequestsOf(<<"PATCH", "GET">>, outcome)
          /\ rsOutcome' = outcome
          /\ rsBody' = IF outcome = "token" THEN rsBody
                       ELSE UpdateBody(rsKind, RequestOf(plan))
          /\ rsRemote' = IF outcome = "object"
                         THEN Patched(rsRemote, UpdateBody(rsKind, RequestOf(plan)), replace)
                         ELSE rsRemote
          /\ rsDiag' = IF outcome = "object" THEN {} ELSE {"Client Error"}
          /\ rsState' = IF outcome = "object" THEN plan ELSE rsState

\* A variant of DeleteRequests in which Delete resets the configuration on the server.
DeleteRequests_Resets(kind) ==
    <<"PUT">>

\* The requests Delete of a singleton configuration sends: the handler has no
\* statement.
DeleteRequests(kind) ==
    <<>>

\* Delete of a singleton configuration; Terraform removes from the state a resource
\* whose Delete reports no error.
Resource_Delete ==
    /\ rsKind \in SingletonKinds
    /\ rsState.present
    /\ Handler("Delete")
    /\ rsLog' = DeleteRequests(rsKind)
    /\ rsOutcome' = "none"
    /\ rsDiag' = {}
    /\ rsState' = NoResource
    /\ UNCHANGED <<rsRemote, rsBody>>

\* Somebody deletes the object on the server, outside Terraform.
Remote_Vanish ==
    /\ rsRemote.exists
    /\ rsKind \notin SingletonKinds
    /\ rsRemote' = NoRemote
    /\ UNCHANGED <<rsKind, rsState, rsPrev, rsBody, rsLog, rsDiag, rsHandler, rsOutcome,
                   rsSteps, outsideResource>>

\* A policy starts out unmanaged; the other resources start in the state, with an
\* object on the server.
InitResource ==
    /\ InitClient
    /\ InitOp
    /\ InitCfg
    /\ InitImp
    /\ InitIs
    /\ InitH
    /\ InitRc
    /\ InitIu
    /\ InitPv
    /\ importId = <<>>
    /\ apps = <<>>
    /\ config = NoConfig
    /\ env = NoEnv
    /\ rsKind \in ReadKinds \cup SingletonKinds
    /\ rsState = IF rsKind \in PolicyKinds THEN NoResource
                 ELSE [NoResource EXCEPT !.present = TRUE, !.description = Known("d")]
    /\ rsRemote = IF rsKind \in PolicyKinds THEN NoRemote
                  ELSE [NoRemote EXCEPT !.exists = TRUE, !.description = "d"]
    /\ rsPrev = NoResource
    /\ rsBody = NoBody
    /\ rsLog = <<>>
    /\ rsDiag = {}
    /\ rsHandler = "none"
    /\ rsOutcome = "none"
    /\ rsSteps = 0

NextResource ==
    \/ Resource_Create
    \/ Resource_Read
    \/ Resource_Update
    \/ Resource_Delete
    \/ Remote_Vanish

SpecResource == InitResource /\ [][NextResource]_vars

\* ----------------------------------------------------------- SpecProvider
\* FronteggProvider.Configure from the point where the client is authenticated, one
\* step per statement that touches the client, and an agentlink_application data
\* source that Terraform configures and reads. Configure is caller 1 of
\* FindOrCreateApplication.

ConfigureCaller == 1
AuthenticatedClient == [created |-> TRUE, baseURL |-> "u", clientID |-> "id", secret |-> "s"]
ApplicationNames == {""} \cup Names
ServerApplications ==
    {<<>>, <<[id |-> 1, name |-> "app"]>>, <<[id |-> 1, name |-> "App"]>>,
     <<[id |-> 1, name |-> "App"], [id |-> 2, name |-> "app"]>>}

\* What the steps of Configure that publish or fail leave alone.
outsidePublish ==
    <<tokenVars, muVars, callVars, histVars, ghostVars, apps, opVars, impVars, isVars,
      hVars, appVars, rcVars, iuVars, rsVars, config, env, configured, client,
      regionLookup, authRequests, authOutcome, pvName, dsVars>>

\* A variant of Configure_Application that makes the client available to data sources
\* and resources before the application is resolved.
Configure_Application_PublishesFirst ==
    /\ pvPc = "authenticated"
    /\ DataSourceData' = client
    /\ ResourceData' = client
    /\ IF pvName # ""
       THEN /\ pvPc' = "application"
            /\ rcPc' = [rcPc EXCEPT ![ConfigureCaller] = "find"]
            /\ rcName' = [rcName EXCEPT ![ConfigureCaller] = pvName]
            /\ rcCalls' = rcCalls + 1
       ELSE /\ pvPc' = "sources"
            /\ UNCHANGED <<rcPc, rcName, rcCalls>>
    /\ UNCHANGED <<rcFn, rcObjs, rcNew, rcRet, rcCreates, rcOverlap, Diagnostics,
                   tokenVars, muVars, callVars, histVars, ghostVars, apps, opVars, impVars,
                   isVars, hVars, appVars, iuVars, rsVars, config, env, configured, client,
                   regionLookup, authRequests, authOutcome, pvName, dsVars>>

\* Configure, `if applicationName != ""`: the call of FindOrCreateApplication.
Configure_Application ==
    /\ pvPc = "authenticated"
    /\ IF pvName # ""
       THEN /\ pvPc' = "application"
            /\ rcPc' = [rcPc EXCEPT ![ConfigureCaller] = "find"]
            /\ rcName' = [rcName EXCEPT ![ConfigureCaller] = pvName]
            /\ rcCalls' = rcCalls + 1
       ELSE /\ pvPc' = "sources"
            /\ UNCHANGED <<rcPc, rcName, rcCalls>>
    /\ UNCHANGED <<rcFn, rcObjs, rcNew, rcRet, rcCreates, rcOverlap, pvName, dsVars,
                   appVars, outsideProvider>>

\* Configure, `if err != nil` after FindOrCreateApplication: the error and return.
Configure_ApplicationDone ==
    /\ pvPc = "application"
    /\ rcPc[ConfigureCaller] = "done"
    /\ IF rcRet[ConfigureCaller].err # ""
       THEN /\ Diagnostics' = {"Unable to Find or Create Application"}
            /\ pvPc' = "failed"
       ELSE /\ pvPc' = "sources"
            /\ UNCHANGED Diagnostics
    /\ UNCHANGED <<ResourceData, DataSourceData, outsidePublish>>

\* Configure, the sources and then resp.DataSourceData = c and resp.ResourceData = c.
\* `sources`: whether the block has sources; `ok`: whether FindOrCreateSource and
\* ImportAndUpsertSchema succeed for all of them.
Configure_Sources ==
    /\ pvPc = "sources"
    /\ \E sources \in BOOLEAN, ok \in BOOLEAN :
          IF sources /\ ApplicationID = Nil
          THEN /\ Diagnostics' = {"Application Required for Sources"}
               /\ pvPc' = "failed"
               /\ UNCHANGED <<ResourceData, DataSourceData>>
          ELSE IF sources /\ ~ok
          THEN /\ Diagnostics' = {"Unable to Find or Create Source"}
               /\ pvPc' = "failed"
               /\ UNCHANGED <<ResourceData, DataSourceData>>
          ELSE /\ DataSourceData' = client
               /\ ResourceData' = client
               /\ pvPc' = "published"
               /\ UNCHANGED Diagnostics
    /\ UNCHANGED outsidePublish

\* ApplicationDataSource.Configure: nothing without provider data, d.client otherwise.
DataSource_Configure ==
    /\ ~dsClient.created
    /\ DataSourceData.created
    /\ dsClient' = DataSourceData
    /\ UNCHANGED <<pvPc, pvName, dsPc, dsID, dsName, dsReads, rcVars, appVars,
                   outsideProvider>>

\* ApplicationDataSource.Read, the read of d.client.ApplicationID
DataSource_ReadID ==
    /\ dsClient.created
    /\ dsPc \in {"idle", "done"}
    /\ dsReads < MaxCalls
    /\ dsReads' = dsReads + 1
    /\ dsID' = [isNull |-> ApplicationID = Nil, value |-> ApplicationID]
    /\ dsPc' = "name"
    /\ UNCHANGED <<pvPc, pvName, dsClient, dsName, rcVars, appVars, outsideProvider>>

\* ApplicationDataSource.Read, the read of d.client.ApplicationName, and the state
DataSource_ReadName ==
    /\ dsPc = "name"
    /\ dsName' = [isNull |-> ApplicationName = "", value |-> ApplicationName]
    /\ dsPc' = "done"
    /\ UNCHANGED <<pvPc, pvName, dsClient, dsID, dsReads, rcVars, appVars,
                   outsideProvider>>

\* Configure has authenticated the client of a block with or without an
\* application_name; the server has an application of that name or not.
InitProvider ==
    /\ InitClient
    /\ InitOp
    /\ InitImp
    /\ InitIs
    /\ InitH
    /\ InitIu
    /\ InitRs
    /\ importId = <<>>
    /\ apps = <<>>
    /\ config = NoConfig
    /\ env = NoEnv
    /\ configured = TRUE
    /\ Diagnostics = {}
    /\ client = AuthenticatedClient
    /\ ResourceData = NoClient
    /\ DataSourceData = NoClient
    /\ regionLookup = FALSE
    /\ authRequests = 1
    /\ authOutcome = "ok"
    /\ rcFn = "FindOrCreateApplication"
    /\ rcObjs \in ServerApplications
    /\ rcPc = [p \in Callers |-> "idle"]
    /\ rcName = [p \in Callers |-> "app"]
    /\ rcNew = [p \in Callers |-> Nil]
    /\ rcRet = [p \in Callers |-> NoResult]
    /\ rcCalls = 0
    /\ rcCreates = [n \in Names |-> 0]
    /\ rcOverlap = FALSE
    /\ pvPc = "authenticated"
    /\ pvName \in ApplicationNames
    /\ dsClient = NoClient
    /\ dsPc = "idle"
    /\ dsID = NoID
    /\ dsName = NoName
    /\ dsReads = 0

NextProvider ==
    \/ Configure_Application
    \/ FindOrCreate_Find(ConfigureCaller)
    \/ FindOrCreate_Create(ConfigureCaller)
    \/ FindOrCreate_SetID(ConfigureCaller)
    \/ FindOrCreate_SetName(ConfigureCaller)
    \/ Configure_ApplicationDone
    \/ Configure_Sources
    \/ DataSource_Configure
    \/ DataSource_ReadID
    \/ DataSource_ReadName

SpecProvider == InitProvider /\ [][NextProvider]_vars

\* ------------------------------------------------------------------ claims

\* Where a caller is before, and after, Authenticate's httpClient.Do.
BeforeSend == {"rlock", "read_token", "read_expiry", "runlock", "check", "auth_send"}
AfterSend == {"auth_lock", "auth_locking", "write_token", "write_expiry", "auth_unlock",
              "rlock2", "read2"}
Returned == {"got_token", "req_send", "done"}

\* The pair <<tok, exp>> is the empty cache or what one Authenticate stored.
PairOfOneAuth(tok, exp) ==
    \/ tok = EmptyToken /\ exp = ZeroTime
    \/ tok # EmptyToken /\ exp = expiryOf[tok]

\* C1 (state part): no POST /auth/vendor has left before the check, exactly one has
\* left once Authenticate is past its request, and a call that returned without
\* sending one returned the non-empty token it had read from the cache.
C1_SentOnlyOnMiss ==
    \A p \in Callers :
        /\ pc[p] \in BeforeSend => authSent[p] = 0
        /\ pc[p] \in AfterSend => authSent[p] = 1
        /\ pc[p] \in Returned /\ authSent[p] = 0 =>
              /\ err[p] \notin AuthFailures
              /\ token[p] # EmptyToken
              /\ ret[p] = token[p]

\* C1 (step part): leaving the check, the caller goes on to send POST /auth/vendor
\* exactly when the token it read is empty or the time is not before the expiry it
\* read; otherwise it returns the token it read, having sent nothing.
C1_CheckDecides ==
    \A p \in Callers :
        pc[p] = "check" /\ pc'[p] # "check" =>
            IF token[p] # EmptyToken /\ now < expiry[p]
            THEN pc'[p] = "got_token" /\ ret'[p] = token[p] /\ authSent'[p] = 0
            ELSE pc'[p] = "auth_send"

\* C1: GetAccessToken refreshes lazily: it sends POST /auth/vendor if and only if its
\* check finds the cached token empty or the time not before the cached expiry, and
\* otherwise returns the cached token without any HTTP request.
C1_LazyRefresh ==
    []C1_SentOnlyOnMiss /\ [][C1_CheckDecides]_vars

\* C1 witness: a call served from the cache (filled by the other caller's refresh).
C1_Witness ==
    \E p \in Callers :
        /\ pc[p] = "done" /\ op[p] = "GetAccessToken"
        /\ authSent[p] = 0 /\ ret[p] # EmptyToken /\ err[p] = ""

C3_PairGuarded ==
    /\ \A p \in Callers :
          /\ pc[p] # "read_expiry" => PairOfOneAuth(token[p], expiry[p])
          /\ pc[p] \in {"write_token", "write_expiry", "auth_unlock"} => muWriter = p
    /\ muWriter = Nobody => PairOfOneAuth(accessToken, tokenExpiry)
    /\ muWriter # Nobody => muReaders = {}

\* C3 witness: a reader holds the pair of one authentication while another
\* authentication has since replaced it in the cache.
C3_Witness ==
    \E p \in Callers :
        /\ pc[p] = "check" /\ token[p] # EmptyToken
        /\ accessToken # EmptyToken /\ accessToken # token[p]

\* C4 as stated: a POST /auth/vendor leaves only when a second check of the cache
\* would also find the token expired or absent.
C4_DoubleChecked ==
    \A p \in Callers : ~sentOnValid[p]

\* C4 as amended: GetAccessToken checks the cache once. A caller whose read-locked
\* check missed sends POST /auth/vendor after that one read-locked section, whatever
\* the cache holds by then; it enters a second read-locked section only after its
\* Authenticate succeeded, to fetch the token it returns.
C4_SingleCheck ==
    \A p \in Callers :
        /\ pc[p] = "auth_send" => reads[p] = 1
        /\ pc[p] \in AfterSend \ {"read2"} => reads[p] = 1 /\ authSent[p] = 1
        /\ reads[p] = 2 => authSent[p] = 1 /\ authResp[p].token # EmptyToken
        /\ reads[p] <= 2

\* C4 witness: a caller sent its request although the cache held an unexpired token
\* by then, and has returned.
C4_Witness ==
    \E p \in Callers :
        sentOnValid[p] /\ pc[p] = "done" /\ err[p] = "" /\ reads[p] = 2

\* C5: nothing is retried: no call sends more than one POST /auth/vendor or more than
\* one API request; a call whose authentication failed has returned the error after
\* exactly one attempt, with no token, and DoRequest has then sent no API request; a
\* call whose API request failed has returned.
C5_NoRetry ==
    \A p \in Callers :
        /\ authSent[p] <= 1 /\ apiSent[p] <= 1
        /\ err[p] \in AuthFailures =>
              /\ pc[p] \in {"got_token", "done"}
              /\ authSent[p] = 1 /\ apiSent[p] = 0 /\ ret[p] = EmptyToken
        /\ apiSent[p] = 1 => pc[p] = "done"

\* C5 witness: DoRequest has returned the error of a failed authentication.
C5_Witness ==
    \E p \in Callers :
        /\ pc[p] = "done" /\ op[p] = "DoRequest" /\ err[p] \in AuthFailures
        /\ authSent[p] = 1 /\ apiSent[p] = 0

\* ---- C6

\* The requests of the log with the method.
Requests(method) ==
    {k \in 1..Len(log) : log[k].method = method}

\* The request of the log did not end in a success of DeleteTool.
DeleteFailed(k) ==
    log[k].kind = "error" \/ log[k].status \notin {StatusOK, StatusNoContent}

\* ToolsImportResource.Delete has returned.
DeleteReturned ==
    opName = "ToolsImportDelete" /\ opc = "done"

\* C6, the loop and the diagnostics: the loop goes on to the next tool whatever the
\* earlier DeleteTool calls returned; after a listing with tools DeleteTool has been
\* called once for each tool, DeleteToolsBySource has returned nil and Delete has
\* recorded nothing; after an error of DeleteToolsBySource Delete has recorded one
\* warning and no error, and the resource leaves the state.
C6_LoopAndDiagnostics ==
    /\ (opName = "ToolsImportDelete" /\ opc = "delete_tool")
          => (idx \in 1..Len(tools) /\ deleteCalls = idx - 1 /\ result.err = "")
    /\ (DeleteReturned /\ tools # <<>>)
          => (deleteCalls = Len(tools) /\ result.err = "" /\ diag = NoDiag /\ ~inState)
    /\ (DeleteReturned /\ result.err # "")
          => (diag = [warnings |-> 1, errors |-> 0] /\ ~inState /\ Requests("DELETE") = {})

\* C6, each turn of the loop: DeleteTool sends the DELETE for the tool of the turn,
\* unless no access token is to be had (the cached one is missing or expired and no
\* new one is stored).
C6_EachTurn ==
    (opc = "delete_tool" /\ idx' = idx + 1)
        => \/ /\ Len(log') = Len(log) + 1
              /\ log'[Len(log')].method = "DELETE"
              /\ log'[Len(log')].id = tools[idx]
           \/ /\ log' = log
              /\ ~CacheHit(accessToken, tokenExpiry, now)
              /\ accessToken' = accessToken
              /\ tokenExpiry' = tokenExpiry

\* C6 (amended): tool cleanup on delete is best-effort. DeleteToolsBySource calls
\* DeleteTool for every tool of the listing even when an earlier call failed, each
\* call sending a DELETE unless no access token can be obtained, and returns nil;
\* when DeleteToolsBySource returns an error, ToolsImportResource.Delete records
\* only a warning and the resource is removed from the state.
C6_BestEffort ==
    []C6_LoopAndDiagnostics /\ [][C6_EachTurn]_vars

\* C6 witness: Delete has returned after a listing of two tools; the DELETE of the
\* first tool failed, the DELETE of the second was sent all the same, and
\* DeleteToolsBySource returned nil.
C6_Witness ==
    /\ DeleteReturned
    /\ Len(tools) = 2
    /\ \E k \in Requests("DELETE") : log[k].id = tools[1] /\ DeleteFailed(k)
    /\ \E k \in Requests("DELETE") : log[k].id = tools[2]
    /\ result.err = ""
    /\ ~inState

\* C6 as stated: once DeleteToolsBySource has run the loop, a DELETE has been sent
\* for every tool the listing returned.
C6_DeleteSentForEveryTool ==
    (DeleteReturned /\ tools # <<>>)
        => \A i \in 1..Len(tools) : \E k \in Requests("DELETE") : log[k].id = tools[i]

\* ---- C7

\* FindOrCreateApplication has returned.
FindOrCreateReturned ==
    opName = "FindOrCreateApplication" /\ opc = "done"

\* The applications of the server with the name.
Named(n) ==
    {i \in 1..Len(apps) : apps[i].name = n}

\* C7, the states: a create request never leaves for a name the server lists; the
\* server holds at most one application of a name; all the calls for a name that
\* returned an application returned the same ID; and a call that has returned an
\* application returned the server's application of the requested name, which is
\* what Client.ApplicationID and Client.ApplicationName hold.
C7_States ==
    /\ ~dupCreate
    /\ \A n \in Names : Cardinality(Named(n)) <= 1
    /\ \A n \in Names : Cardinality(returnedIds[n]) <= 1
    /\ (FindOrCreateReturned /\ result.err = "")
          => /\ result.obj # Nil
             /\ Named(opArg) = {result.obj}
             /\ returnedIds[opArg] = {result.obj}
             /\ ApplicationID = result.obj
             /\ ApplicationName = opArg

\* C7, the steps: after the listing the call goes on to CreateApplication exactly
\* when the listing was obtained and holds no application of exactly the requested
\* name; CreateApplication sends the POST unless no access token is to be had.
C7_Steps ==
    /\ (opc = "list" /\ opc' # "list")
          => ((opc' = "create")
                <=> /\ Len(log') = 1
                    /\ log'[1].kind = "resp" /\ log'[1].status = StatusOK /\ log'[1].decodable
                    /\ \A i \in 1..Len(apps) : apps[i].name # opArg)
    /\ (opc = "create" /\ opc' # "create")
          => \/ /\ Len(log') = 2
                /\ log'[2].method = "POST"
                /\ createsSent'[opArg] = createsSent[opArg] + 1
             \/ /\ log' = log
                /\ createsSent' = createsSent
                /\ ~CacheHit(accessToken, tokenExpiry, now)
                /\ accessToken' = accessToken
                /\ result'.err = "token"

\* C7 (amended): FindOrCreateApplication is find-or-create and idempotent when
\* called sequentially. It goes on to the create request if and only if the listing
\* was obtained and contains no application whose name equals the requested name
\* exactly, and the request is sent unless no access token can be obtained. Against
\* a server that lists every application it created, the calls with one name create
\* at most one application of that name, and every call that returns an application
\* returns the same application ID, which is also the value left in
\* Client.ApplicationID.
C7_FindOrCreate ==
    []C7_States /\ [][C7_Steps]_vars

\* C7 witness: a second call with the name has returned the application that the
\* first call created, without a create request of its own.
C7_Witness ==
    /\ FindOrCreateReturned
    /\ opsStarted = 2
    /\ result.err = ""
    /\ createsSent[opArg] = 1
    /\ Requests("POST") = {}
    /\ ApplicationID = result.obj

\* C7 as stated: for sequential calls with the same name at most one create request
\* is sent.
C7_AtMostOneCreateRequest ==
    \A n \in Names : createsSent[n] <= 1

\* ---- C8

\* One of the five getters has returned after its request was sent.
GetterReturned ==
    opName \in Getters /\ opc = "done" /\ log # <<>>

\* C8: a missing remote object is a value. Each of the five getters returns
\* (nil, nil) for 404, the decoded object and a nil error for 200 (an error when the
\* body of the 200 does not decode), and a nil object with a non-nil error for every
\* other status or when there is no response.
C8_MissingIsAValue ==
    GetterReturned
        => /\ Len(log) = 1
           /\ log[1].method = "GET" /\ log[1].id = opArg
           /\ (log[1].kind = "resp" /\ log[1].status = StatusNotFound)
                 => (result.obj = Nil /\ result.err = "")
           /\ (log[1].kind = "resp" /\ log[1].status = StatusOK /\ log[1].decodable)
                 => (result.obj = opArg /\ result.err = "")
           /\ (log[1].kind = "resp" /\ log[1].status = StatusOK /\ ~log[1].decodable)
                 => (result.obj = Nil /\ result.err # "")
           /\ (log[1].kind = "error" \/ log[1].status \notin {StatusOK, StatusNotFound})
                 => (result.obj = Nil /\ result.err # "")

\* C8 witness: GetApplicationByID has returned (nil, nil) for a 404.
C8_Witness ==
    /\ GetterReturned
    /\ opName = "GetApplicationByID"
    /\ log[1].status = StatusNotFound
    /\ result = NoResult

\* ---- C9

\* C9: UpdateApplication writes then reads back. The first request is the PATCH for
\* the ID; a second request is the GET for the same ID and is there only after the
\* PATCH was answered 200 or 201; there is no third request; the call returns what
\* GetApplicationByID makes of the GET's answer; and when the PATCH fails no GET is
\* sent and an error is returned.
C9_WriteThenReadBack ==
    opName = "UpdateApplication"
        => /\ Len(log) <= 2
           /\ log # <<>> => (log[1].method = "PATCH" /\ log[1].id = opArg)
           /\ Len(log) = 2
                 => /\ log[2].method = "GET"
                    /\ log[2].path = "applications"
                    /\ log[2].id = opArg
                    /\ log[1].kind = "resp"
                    /\ log[1].status \in {StatusOK, StatusCreated}
           /\ (opc = "done" /\ Len(log) = 2)
                 => /\ (log[2].kind = "resp" /\ log[2].status = StatusOK /\ log[2].decodable)
                          => result = [obj |-> opArg, err |-> ""]
                    /\ (log[2].kind = "resp" /\ log[2].status = StatusNotFound)
                          => result = NoResult
                    /\ (log[2].kind = "error"
                          \/ log[2].status \notin {StatusOK, StatusNotFound}
                          \/ (log[2].status = StatusOK /\ ~log[2].decodable))
                          => (result.obj = Nil /\ result.err # "")
           /\ (opc = "done" /\ Len(log) = 1
                 /\ (log[1].kind = "error" \/ log[1].status \notin {StatusOK, StatusCreated}))
                 => (result.obj = Nil /\ result.err # "")
           /\ (opc = "get") => Len(log) = 1

\* C9 witness: UpdateApplication has returned the application that the GET, sent
\* after a PATCH answered 201, read back.
C9_Witness ==
    /\ opName = "UpdateApplication"
    /\ opc = "done"
    /\ Len(log) = 2
    /\ log[1].status = StatusCreated
    /\ result = [obj |-> opArg, err |-> ""]

\* ---- C10

\* The resolved base_url: the configuration value, else FRONTEGG_BASE_URL.
ResolvedBaseURL ==
    IF config.base_url.state = "null" THEN env.base_url
    ELSE IF config.base_url.state = "known" THEN config.base_url.value
    ELSE ""

\* C10: base_url takes precedence over region. Whenever the resolved base_url is
\* non-empty, Configure does not look the region up and reports no 'Invalid
\* Frontegg Region'; a client it creates has exactly that base URL, and it creates
\* one unless the block cannot be read or a credential is unknown or missing.
C10_BaseURLPrecedence ==
    (configured /\ ResolvedBaseURL # "")
        => /\ ~regionLookup
           /\ "Invalid Frontegg Region" \notin Diagnostics
           /\ client.created => client.baseURL = ResolvedBaseURL
           /\ ResourceData.created => ResourceData.baseURL = ResolvedBaseURL
           /\ Diagnostics \subseteq {"Unable to Authenticate with Frontegg API"}
                 => (client.created /\ client.baseURL = ResolvedBaseURL)

\* C10 witness: Configure has returned for a block with an invalid region and a
\* base_url; the client has the base_url and is handed to the resources.
C10_Witness ==
    /\ configured
    /\ config.region = Known("xx")
    /\ config.base_url = Known("https://custom.example")
    /\ Diagnostics = {}
    /\ client.created
    /\ client.baseURL = "https://custom.example"
    /\ ResourceData = client

\* ---- C11

\* A setting as resolved: the configuration value if it is non-null (the empty
\* string for an unknown one), the environment variable otherwise.
Setting(name) ==
    IF config[name].state = "null" THEN env[name]
    ELSE IF config[name].state = "known" THEN config[name].value
    ELSE ""

\* The region after the default.
RegionUsed ==
    IF Setting("region") = "" THEN "eu" ELSE Setting("region")

\* The endpoints of the supported regions.
RegionEndpoints ==
    {<<"stg", "https://api.stg.frontegg.com">>, <<"eu", "https://api.frontegg.com">>,
     <<"us", "https://api.us.frontegg.com">>, <<"au", "https://api.au.frontegg.com">>,
     <<"ca", "https://api.ca.frontegg.com">>, <<"uk", "https://api.uk.frontegg.com">>}

\* Configure has returned and had come as far as resolving the base URL (the block
\* was read and no credential is unknown).
ResolutionReached ==
    /\ configured
    /\ Diagnostics \cap {"Config.Get", "Unknown Frontegg Client ID", "Unknown Frontegg Secret"} = {}

\* C11: region resolution when no base_url is given. With each setting resolved as
\* configuration value if non-null else environment variable, and an empty region
\* read as 'eu': for stg, eu, us, au, ca and uk a client that Configure creates has
\* the endpoint of the region as its base URL and the resolved credentials, and one
\* is created when both credentials are non-empty; any other region yields exactly
\* the 'Invalid Frontegg Region' error, no client, and no HTTP request.
C11_RegionResolution ==
    (ResolutionReached /\ Setting("base_url") = "")
        => /\ regionLookup
           /\ \A p \in RegionEndpoints :
                 RegionUsed = p[1]
                    => /\ "Invalid Frontegg Region" \notin Diagnostics
                       /\ client.created
                             => /\ client.baseURL = p[2]
                                /\ client.clientID = Setting("client_id")
                                /\ client.secret = Setting("secret")
                       /\ (Setting("client_id") # "" /\ Setting("secret") # "") => client.created
           /\ (\A p \in RegionEndpoints : RegionUsed # p[1])
                 => /\ Diagnostics = {"Invalid Frontegg Region"}
                    /\ ~client.created
                    /\ authRequests = 0
                    /\ ~ResourceData.created /\ ~DataSourceData.created

\* C11 witness: Configure has created the client for the uk endpoint from a region
\* of the environment, with no base_url anywhere.
C11_Witness ==
    /\ configured
    /\ config.region = Null /\ env.region = "uk"
    /\ Setting("base_url") = ""
    /\ client.created
    /\ client.baseURL = "https://api.uk.frontegg.com"
    /\ ResourceData = client

\* ---- C12

\* C12: Configure hands the client over only after Authenticate succeeded. A client
\* in ResourceData or DataSourceData is the created client, in both, after one
\* successful authentication and with no error reported; an empty or unknown
\* client_id or secret gives an error, no HTTP request and no client handed over; a
\* failed authentication gives the 'Unable to Authenticate' error and leaves both
\* unset.
C12_ClientOnlyAfterAuth ==
    configured
        => /\ (ResourceData.created \/ DataSourceData.created)
                 => /\ authOutcome = "ok"
                    /\ authRequests = 1
                    /\ accessToken # EmptyToken
                    /\ Diagnostics = {}
                    /\ ResourceData = client /\ DataSourceData = client
           /\ (\E n \in {"client_id", "secret"} : config[n].state = "unknown" \/ Setting(n) = "")
                 => /\ Diagnostics # {}
                    /\ authRequests = 0
                    /\ authOutcome = "none"
                    /\ ~ResourceData.created /\ ~DataSourceData.created
           /\ authOutcome \in AuthFailures
                 => /\ Diagnostics = {"Unable to Authenticate with Frontegg API"}
                    /\ ~ResourceData.created /\ ~DataSourceData.created
                    /\ accessToken = EmptyToken

\* C12 witness: Configure has returned after a failed authentication of a client
\* with both credentials; nothing was handed over.
C12_Witness ==
    /\ configured
    /\ client.created
    /\ client.clientID # "" /\ client.secret # ""
    /\ authOutcome = "auth_status"
    /\ ~ResourceData.created /\ ~DataSourceData.created

\* ---- C13

\* Create of the tools import resource has just returned without an error.
CreateSucceeded ==
    tiHandler = "Create" /\ tiPc = "idle" /\ tiDiag = {} /\ tiState.present

\* C13 as stated: after a successful Create of agentlink_tools_import, tools_count
\* in the state equals the number of tools that were imported from the schema.
C13_ToolsCountIsNumberImported ==
    CreateSucceeded
        => (~tiState.tools_count_unknown /\ tiState.tools_count = lastImport.tools)

\* ---- C14

\* C14 as stated, the state: schema_hash in the state is the SHA-256 of a content
\* only through an import of that content.
C14_HashOnlyThroughImport ==
    tiState.present => tiState.schema_hash = Sha256Hex(lastImport.content)

\* C14 as stated, the cycle: a cycle that ends with the resource in the state, its
\* configuration as in the state and the schema file holding a content other than
\* the one imported last has called ImportAndUpsertSchema with the file's content.
C14_CycleReimports ==
    (/\ tiStep = "refreshed" /\ tiStep' = "edit"
     /\ tiState.present
     /\ tiState.schema_file = tiConfig.schema_file
     /\ file[tiConfig.schema_file] \notin {NoFile, lastImport.content})
        => /\ Len(importCalls') = Len(importCalls) + 1
           /\ importCalls'[Len(importCalls')] = file[tiConfig.schema_file]

\* C14 as stated: a change of the schema content triggers a re-import in the next
\* refresh-plan-apply cycle, and schema_hash becomes the SHA-256 of the new content
\* only through that re-import.
C14_ContentChangeReimports ==
    []C14_HashOnlyThroughImport /\ [][C14_CycleReimports]_vars

\* ---- C15

\* The positions of the colons of the import ID.
Colons ==
    {i \in 1..Len(importId) : importId[i] = ":"}

\* C15: ImportState of agentlink_source. For an ID with exactly one colon it sets
\* application_id to the part before the colon and id to the part after it and
\* reports nothing; for every other ID it reports 'Invalid Import ID' and sets no
\* attribute.
C15_ImportIdFormat ==
    importDone
        => IF Cardinality(Colons) = 1
           THEN \E i \in Colons :
                   /\ importAttrs.application_id = SetTo(SubSeq(importId, 1, i - 1))
                   /\ importAttrs.id = SetTo(SubSeq(importId, i + 1, Len(importId)))
                   /\ importDiag = {}
           ELSE /\ importDiag = {"Invalid Import ID"}
                /\ importAttrs = NoAttrs

\* C15 witness: ImportState has split "a:b" into application_id "a" and id "b".
C15_Witness ==
    /\ importDone
    /\ importId = <<"a", ":", "b">>
    /\ importAttrs.application_id = SetTo(<<"a">>)
    /\ importAttrs.id = SetTo(<<"b">>)
    /\ importDiag = {}

\* ---- C16

\* C16 as stated: RbacPolicyResource.Create with internal_tool_ids = [] sends the
\* create request to the API and, unless the client reports an error, stores the
\* policy in the state.
C16_EmptyToolIdsAccepted ==
    (hName = "RbacPolicyResource.Create" /\ opc = "done" /\ hPlan.toolIDs = <<>>)
        => /\ "Validation Error" \notin hDiag
           /\ result # TokenError => (log # <<>> /\ log[1].method = "POST")
           /\ (hDiag = {} /\ ~hPanic) => hStored

\* ---- C17

\* C17 as stated: whenever the targeting attribute of an agentlink_conditional_policy
\* is set, the create request and the update request carry a targeting object with
\* the configured conditions and the configured result.
C17_TargetingReachesApi ==
    (/\ hName \in {"ConditionalPolicyResource.Create", "ConditionalPolicyResource.Update"}
     /\ hPlan.targeting.state = "known"
     /\ log # <<>>)
        => /\ hReq.targeting.set
           /\ hReq.targeting.conditions = hPlan.targeting.conditions
           /\ hReq.targeting.result = hPlan.targeting.result

\* ---- C20

\* The write-then-read-back client functions of the policies.
WriteReadBack ==
    {"CreateConditionalPolicy", "CreateRbacPolicy", "CreateMaskingPolicy",
     "UpdateConditionalPolicy", "UpdateRbacPolicy", "UpdateMaskingPolicy"}

\* C20 as stated: whenever a write-then-read-back client function returns a nil
\* error, the returned object is non-nil, for every sequence of server responses
\* including a 404 on the read-back GET.
C20_NilErrorImpliesObject ==
    (opName \in WriteReadBack /\ opc = "done" /\ log # <<>> /\ result.err = "")
        => result.obj # Nil

\* ---- C18

\* The positions of a call in which the goroutine holds the read lock, and those in
\* which it holds the write lock.
ReadLocked == {"read_token", "read_expiry", "runlock", "read2"}
WriteLocked == {"write_token", "write_expiry", "auth_unlock"}

\* The lock is held exactly in the locked sections: a reader is inside one of the two
\* read sections, the writer is between the two assignments and the Unlock, so nobody
\* holds the mutex during the HTTP request or while calling RLock or Lock.
C18_LockDiscipline ==
    \A p \in Callers :
        /\ p \in muReaders <=> pc[p] \in ReadLocked
        /\ muWriter = p <=> pc[p] \in WriteLocked
        /\ p \in muPending <=> pc[p] = "auth_locking"

\* C18: token acquisition cannot deadlock. The read lock is released before
\* Authenticate is called, the write lock is held only around the two assignments,
\* nobody takes the mutex while holding it, and with concurrent callers every call
\* that has started eventually returns.
C18_NoDeadlock ==
    /\ []C18_LockDiscipline
    /\ \A p \in Callers : (pc[p] \notin {"idle", "done"}) ~> (pc[p] = "done")

\* C18, witness: a goroutine waits in Lock() while another holds the write lock.
C18_Witness ==
    \E p, q \in Callers :
        /\ p # q
        /\ pc[p] = "auth_locking"
        /\ muWriter = q

\* ---- C19

\* The tokens POST /auth/vendor has issued so far: one for each request that succeeded.
Issued == 1 .. (nextToken - 1)

\* Every API request sent carries a token the auth server issued, so a
\* POST /auth/vendor succeeded before it.
C19_BearerIsIssued ==
    \A p \in Callers : apiSent[p] > 0 => bearer[p] \in Issued

\* A step that sends an API request is taken after GetAccessToken returned without
\* error, and the Authorization header holds the token it returned.
C19_SendsAfterToken ==
    \A p \in Callers :
        apiSent'[p] > apiSent[p] =>
            /\ op[p] \in Authenticated
            /\ err[p] = ""
            /\ ret[p] # EmptyToken
            /\ bearer'[p] = ret[p]

\* C19: every API request is authenticated. DoRequest and importSchema send their
\* request only after GetAccessToken returned without error, with the token it
\* returned as the bearer, so no API request is sent before a POST /auth/vendor has
\* succeeded.
C19_EveryRequestAuthenticated ==
    []C19_BearerIsIssued /\ [][C19_SendsAfterToken]_vars

\* C19, witness: a DoRequest call and an importSchema call have both sent their
\* request.
C19_Witness ==
    \E p, q \in Callers :
        /\ op[p] = "DoRequest" /\ apiSent[p] > 0
        /\ op[q] = "importSchema" /\ apiSent[q] > 0

\* ---- C21

\* The step in which Authenticate returns an error to caller p.
AuthenticateFails(p) ==
    /\ pc[p] = "auth_send"
    /\ pc'[p] = "got_token"
    /\ err'[p] \in AuthFailures

\* A caller whose Authenticate failed never reaches the locked assignments.
C21_FailedNeverWrites ==
    \A p \in Callers : err[p] \in AuthFailures => pc[p] \in {"got_token", "done"}

\* C21: a failed authentication leaves the cache unchanged. The step in which
\* Authenticate returns an error changes neither the cached token nor the cached
\* expiry, and the failed call writes nothing afterwards, so a token that is still
\* valid keeps being served.
C21_FailureKeepsCache ==
    /\ []C21_FailedNeverWrites
    /\ [][\A p \in Callers :
            AuthenticateFails(p) =>
                /\ accessToken' = accessToken
                /\ tokenExpiry' = tokenExpiry
                /\ CacheValidNow => CacheValidNow']_vars

\* C21, witness: a call failed in Authenticate while the cache holds an unexpired
\* token, and another call was served that token from the cache without a request.
C21_Witness ==
    \E p, q \in Callers :
        /\ p # q
        /\ pc[p] = "done" /\ err[p] \in AuthFailures
        /\ CacheValidNow
        /\ pc[q] = "done" /\ err[q] = "" /\ authSent[q] = 0 /\ ret[q] = accessToken

\* ---- C22

\* The server's objects with name n.
ObjectsNamed(n) == {i \in 1..Len(rcObjs) : rcObjs[i].name = n}

\* Calls made one after the other create at most one object of a name.
C22_SequentialCreatesOnce ==
    ~rcOverlap => \A n \in Names : Cardinality(ObjectsNamed(n)) <= 1

\* A caller that found no match goes on to the create request without looking again:
\* it sends the request unless no token can be had.
C22_CreateWithoutRecheck ==
    \A p \in Callers :
        (rcPc[p] = "create" /\ rcPc'[p] # "create") =>
            \/ rcCreates'[rcName[p]] = rcCreates[rcName[p]] + 1
            \/ rcRet'[p] = TokenError

\* C22, amended: FindOrCreateSource and FindOrCreateApplication are check-then-create
\* without atomicity. Two callers that both list before either creates both send a
\* create request, so two objects of one name are reachable; calls made one after the
\* other create at most one object of a name.
C22_CheckThenCreate ==
    []C22_SequentialCreatesOnce /\ [][C22_CreateWithoutRecheck]_vars

\* C22, witness: two callers with the same name interleaved, both sent a create
\* request, and the server holds two objects of that name.
C22_Witness ==
    \E n \in Names :
        /\ rcOverlap
        /\ rcName[1] = n /\ rcName[2] = n
        /\ rcPc[1] = "done" /\ rcPc[2] = "done"
        /\ rcCreates[n] = 2
        /\ Cardinality(ObjectsNamed(n)) = 2

\* C22 as stated: any purely sequential order sends at most one create request.
C22_SequentialSendsOneCreate ==
    ~rcOverlap => \A n \in Names : rcCreates[n] <= 1

\* ---- C23

\* Storing the expiry of a response with expiresIn = E at time t stores t + (E - 60),
\* which for E <= 60 is not after t.
C23_StoresWithBuffer ==
    \A p \in Callers :
        (pc[p] = "write_expiry" /\ pc'[p] # "write_expiry") =>
            /\ tokenExpiry' = now + (authResp[p].expiresIn - 60)
            /\ expiryOf'[authResp[p].token] = now + (authResp[p].expiresIn - 60)
            /\ authResp[p].expiresIn <= 60 => tokenExpiry' <= now

\* The check serves the token it read exactly when the time is before the expiry that
\* was stored with that token, and never a token that came with expiresIn <= 60.
C23_ServedBeforeExpiry ==
    \A p \in Callers :
        (pc[p] = "check" /\ pc'[p] # "check") =>
            IF token[p] # EmptyToken /\ now < expiryOf[token[p]]
            THEN /\ pc'[p] = "got_token"
                 /\ ret'[p] = token[p]
                 /\ \A q \in Callers :
                       authResp[q].token = token[p] => authResp[q].expiresIn > 60
            ELSE pc'[p] = "auth_send"

\* The clock does not go back.
C23_TimeAdvances == now' >= now

\* A call that authenticated returns an issued token with a nil error, whatever the
\* expiresIn of the response.
C23_FreshTokenReturned ==
    \A p \in Callers :
        (pc[p] \in Returned /\ authSent[p] = 1 /\ err[p] = "") => ret[p] \in Issued

\* C23: the cached expiry carries a 60-second buffer. A response with expiresIn = E
\* stored at time t leaves the expiry t + (E - 60); GetAccessToken at time u serves the
\* cached token exactly when u < t + (E - 60); for E <= 60 that is never the case at
\* or after t, so every later call authenticates again, and still returns the token
\* it obtained with a nil error.
C23_ExpiryBuffer ==
    /\ []C23_FreshTokenReturned
    /\ [][C23_StoresWithBuffer /\ C23_ServedBeforeExpiry /\ C23_TimeAdvances]_vars

\* C23, witness: a call found in the cache a token stored with expiresIn = 60,
\* authenticated again and returned the token it obtained.
C23_Witness ==
    \E p, q \in Callers :
        /\ p # q
        /\ pc[q] = "done" /\ authResp[q].expiresIn = 60 /\ err[q] = ""
        /\ pc[p] = "done" /\ token[p] = authResp[q].token
        /\ authSent[p] = 1 /\ err[p] = "" /\ ret[p] = authResp[p].token

\* ---- C24

\* The step that sends an API request and gets its answer, 401 included, changes
\* neither the cached token nor the cached expiry, sends no POST /auth/vendor and
\* ends the call: nothing is sent again.
C24_AnswerLeavesCache ==
    \A p \in Callers :
        apiSent'[p] > apiSent[p] =>
            /\ accessToken' = accessToken
            /\ tokenExpiry' = tokenExpiry
            /\ authSent' = authSent
            /\ nextToken' = nextToken
            /\ pc'[p] = "done"

\* A request sent without an authentication in its call carries the token the call
\* read from the cache, whatever answers that token got before; a call sends at most
\* one API request.
C24_CachedTokenSent ==
    \A p \in Callers :
        /\ apiSent[p] <= 1
        /\ (apiSent[p] = 1 /\ authSent[p] = 0) => (bearer[p] = token[p] /\ bearer[p] \in Issued)

\* C24: a rejected token is not invalidated. When an API request is answered with 401
\* while the cached token is unexpired, the client neither clears the cached token nor
\* authenticates again, and later requests send the same cached token until the
\* expiry is reached.
C24_RejectedTokenKept ==
    []C24_CachedTokenSent /\ [][C24_AnswerLeavesCache]_vars

\* C24, witness: one request was answered with 401, the cache still holds the token
\* it carried, and another call is about to send that same token from the cache.
C24_Witness ==
    \E p, q \in Callers :
        /\ p # q
        /\ pc[q] = "done" /\ status[q] = StatusUnauthorized
        /\ accessToken = bearer[q] /\ CacheValidNow
        /\ pc[p] = "req_send" /\ authSent[p] = 0 /\ ret[p] = bearer[q]

\* ---- C25

\* C25: ImportAndUpsertSchema imports first and upserts second. For a source type
\* that is neither REST nor GRAPHQL it returns an error without any request; the
\* first request is the import at the endpoint of the source type; the upsert is
\* sent only as the second request, after an import that succeeded with at least one
\* tool; and every tool of the upsert request carries the given source ID.
C25_ImportThenUpsert ==
    /\ (iuPc = "done" /\ iuArgs.sourceType \notin {"REST", "GRAPHQL"}) =>
          (iuErr # "" /\ iuLog = <<>>)
    /\ Len(iuLog) <= 2
    /\ Len(iuLog) >= 1 =>
          /\ iuLog[1].path = ImportEndpoint(iuArgs.sourceType)
          /\ iuArgs.sourceType \in {"REST", "GRAPHQL"}
    /\ Len(iuLog) = 2 =>
          /\ iuLog[1].ok
          /\ iuLog[2].path = "upsert"
          /\ Len(iuLog[2].tools) > 0
          /\ \A j \in 1..Len(iuLog[2].tools) : iuLog[2].tools[j].sourceID = iuArgs.sourceID
    /\ (iuPc = "done" /\ Len(iuLog) = 1 /\ ~iuLog[1].ok) => iuErr # ""
    /\ (iuPc = "done" /\ Len(iuLog) = 1 /\ iuLog[1].ok /\ iuErr = "") => iuTools = <<>>

\* C25, witness: a call imported two tools, to which the server had given another
\* source ID or none, upserted them and returned nil.
C25_Witness ==
    /\ iuPc = "done" /\ iuErr = ""
    /\ iuArgs.sourceID = "s1"
    /\ Len(iuLog) = 2
    /\ Len(iuLog[2].tools) = 2

\* C26: for the application, the MCP configuration, the source and the three policy
\* resources, a Read whose getter returns a nil object with a nil error removes the
\* resource from the state and reports no error, and a Read whose getter returns an
\* error leaves the state as it was and reports an error.
C26_ReadDropsVanished ==
    [][Resource_Read =>
          /\ rsOutcome' = "nil" => (~rsState'.present /\ rsDiag' = {})
          /\ rsOutcome' \in {"token", "error"} => (rsState' = rsState /\ rsDiag' # {})]_vars

\* C26: a resource that was in the state has been read after its object vanished,
\* and is gone from the state with no error.
C26_Witness ==
    /\ rsKind \in ReadKinds
    /\ rsHandler = "Read"
    /\ rsOutcome = "nil"
    /\ rsPrev.present
    /\ ~rsState.present
    /\ rsDiag = {}

\* C27 as stated: the PATCH body of an Update*Policy call that succeeded contains the
\* masking flag when the update changed it from true to false, and contains
\* internalToolIds when the update changed internal_tool_ids to the empty list.
C27_ZeroValueTransmitted ==
    (rsHandler = "Update" /\ rsOutcome = "object")
        => /\ (rsPrev.credit_card /\ ~rsState.credit_card) => "creditCard" \in rsBody.has
           /\ (Len(rsPrev.internal_tool_ids.value) > 0
                  /\ rsState.internal_tool_ids = Known(<<>>))
                 => "internalToolIds" \in rsBody.has

\* C28 as stated: for the three policy resources, a Read that gets the object right
\* after a Create that succeeded, from a server that returns the values it was sent,
\* leaves every attribute of the state as Create left it.
C28_ReadAfterCreateNoDrift ==
    [][(/\ Resource_Read
        /\ rsKind \in PolicyKinds
        /\ rsHandler = "Create"
        /\ rsOutcome = "object"
        /\ rsOutcome' = "object") => rsState' = rsState]_vars

\* C30: Delete of agentlink_mcp_configuration and of agentlink_identity_configuration
\* sends no request and reports no error: the configuration on the server is what
\* it was, and the resource is gone from the state.
C30_DeleteChangesNothingRemotely ==
    [][Resource_Delete =>
          /\ rsLog' = <<>>
          /\ rsDiag' = {}
          /\ rsRemote' = rsRemote
          /\ ~rsState'.present]_vars

\* C30: a singleton configuration that was in the state has been destroyed, and its
\* configuration is still on the server.
C30_Witness ==
    /\ rsKind \in SingletonKinds
    /\ rsHandler = "Delete"
    /\ rsPrev.present
    /\ ~rsState.present
    /\ rsRemote.exists
    /\ rsRemote.description = "d"

\* C29: Client.ApplicationID and Client.ApplicationName are written only by the
\* FindOrCreateApplication that Configure calls, and only while the client is not yet
\* ResourceData or DataSourceData; the data source reads them only when no such call
\* is running, so no read interleaves with a write; and the data source returns a
\* null id and a null name exactly when no application was resolved.
C29_Published == ResourceData.created \/ DataSourceData.created \/ dsClient.created
C29_Resolved == rcRet[ConfigureCaller].obj # Nil
C29_WritesBeforePublication ==
    /\ [][(ApplicationID' # ApplicationID \/ ApplicationName' # ApplicationName)
            => /\ ~C29_Published
               /\ pvPc = "application"
               /\ rcPc[ConfigureCaller] \in {"set_id", "set_name"}]_vars
    /\ [](C29_Published => rcPc[ConfigureCaller] \in {"idle", "done"})
    /\ [](dsPc # "idle" => C29_Published)
    /\ [](dsPc = "done" => /\ dsID.isNull <=> ~C29_Resolved
                           /\ dsName.isNull <=> ~C29_Resolved
                           /\ ~dsID.isNull => dsID.value = rcRet[ConfigureCaller].obj
                           /\ ~dsName.isNull => dsName.value = pvName)

\* C29: Configure resolved an application and published the client, and the data
\* source has read its id and its name.
C29_Witness ==
    /\ pvPc = "published"
    /\ C29_Resolved
    /\ dsPc = "done"
    /\ ~dsID.isNull
    /\ ~dsName.isNull

====
